---- MODULE Spec2Model ----
(***************************************************************************)
(* A model of the clacks RPC server core: the command registry, the        *)
(* session loops that enqueue questions, the single queue worker           *)
(* (tick_queue / __respond / _respond), the digest of a question into a    *)
(* Response, the adapter hooks around it, and the handler's respond.       *)
(***************************************************************************)
EXTENDS Integers, Sequences, FiniteSets, TLC

\* ------------------------------------------------------------------ bounds
NumConns == 2
MaxTx == 3
MaxRegs == 2
MaxDigestTx == 1
MaxSessionTx == 2
MaxDiscs == 1
MaxEntries == 2
MaxSetupAdapters == 1
MaxAdapterRegs == 3
MaxProfilingRegs == 1
MaxWorkers == 2
MaxQueueTx == 2
MaxQueuedCalls == 3
MaxLogTx == 2
MaxOwnRecords == 2
MaxForeignRecords == 1
NumPackets == 2
MaxBody == 2
MaxEndClients == 4
RecursionLimit == 6
MaxCalls == 3
MaxClock == 4
\* timeouts and the poll interval in ticks of the clock: time.sleep(0.1) is
\* two ticks, list_commands is given ListCommandsTimeout (10.0 s in the program)
SleepTicks == 2
ListCommandsTimeout == 2
Timeouts == {1, 2}
\* The idle window counted in reads that time out (15 in the program:
\* CONNECTION_LIFETIME 30 s, CONNECTION_TIMEOUT 2 s)
LifetimeTicks == 2
\* ClientProxyBase.connection_retries
connection_retries == 5

\* --------------------------------------------------------- program constants
NOT_RUN == 0
OK == 200
DEPRECATED == 201
NOT_FOUND == 404
ACCESS_DENIED == 405
BAD_QUESTION == 504
UNHANDLED_EXCEPTION == 600
INVALID_COMMAND_RETURN_TYPE == 621
BAD_RESPONSE == 505
MARSHAL_ERROR == 502

None == "None"
Absent == "<absent>"

Conns == 1..NumConns

\* ----------------------------------------------------------------- errors
\* Exception classes are named by class name. HookError stands for whatever
\* exception a user-written adapter hook raises.
\* The classes that carry a "code" class attribute, and its value.
CodedErrors == {"ClacksCommandIsPrivateError",
                "ClacksCommandUnexpectedReturnValueError"}

ErrorCodeAttr(e) ==
    IF e = "ClacksCommandIsPrivateError" THEN ACCESS_DENIED
    ELSE INVALID_COMMAND_RETURN_TYPE

\* Every error mapped to the status of success
error_code_always_ok(e) == OK

\* errors.constants.error_code_from_error
error_code_from_error(e) ==
    IF e \in CodedErrors THEN ErrorCodeAttr(e) ELSE UNHANDLED_EXCEPTION

\* The error registry after import, as a set of <<key, class>> pairs.
DefaultErrorRegistry ==
    {<<"type_error", "TypeError">>, <<"socket_error", "OSError">>,
     <<"key_error", "KeyError">>, <<"value_error", "ValueError">>,
     <<"attribute_error", "AttributeError">>,
     <<"not_implemented", "NotImplementedError">>,
     <<"clacks_unrecognized_command_alias", "ClacksUnrecognizedCommandAliasError">>,
     <<"clacks_bad_command_args", "ClacksBadCommandArgsError">>,
     <<"clacks_command_unexpected_return_type_error", "ClacksCommandUnexpectedReturnValueError">>,
     <<"clacks_command_is_private_error", "ClacksCommandIsPrivateError">>,
     <<"clacks_client_connection_failed_error", "ClacksClientConnectionFailedError">>,
     <<"clacks_command_not_found_error", "ClacksCommandNotFoundError">>}

\* error_registry.get(key) or Exception
error_from_key(registry, key) ==
    IF \E p \in registry : p[1] = key
    THEN (CHOOSE p \in registry : p[1] = key)[2]
    ELSE "Exception"

\* The key of the exactly matching class; KeyError when none is registered.
key_from_error_type(registry, cls) ==
    IF \E p \in registry : p[2] = cls
    THEN [exc |-> None, key |-> (CHOOSE p \in registry : p[2] = cls)[1]]
    ELSE [exc |-> "KeyError", key |-> None]

\* --------------------------------------------------------------- packages
\* A Response as the fields the server reads and writes.
MkResponse(response, code, tb, tb_type, warnings) ==
    [response |-> response, code |-> code, tb |-> tb, tb_type |-> tb_type,
     warnings |-> warnings]

\* Response.__init__ with its "refresh traceback" step (the traceback
\* setter). tb is None or a traceback text; tb_type is None or what the
\* caller passed as tb_type (the server passes the exception class).
\* Result: exc = None and the Response, or the exception that escapes.
ResponseInit(registry, response, code, tb, tb_type) ==
    IF tb = None
    THEN [exc |-> None, resp |-> MkResponse(response, code, None, tb_type, <<>>)]
    ELSE LET typ == IF tb_type = None THEN "Exception"
                    ELSE error_from_key(registry, tb_type)
             k == key_from_error_type(registry, typ)
         IN IF k.exc # None
            THEN [exc |-> k.exc, resp |-> None]
            ELSE [exc |-> None,
                  resp |-> MkResponse(response, code, tb, k.key, <<>>)]

\* A question as it arrives: the payload's "command" entry (Absent when the
\* payload has none), a "command" entry inside its kwargs, and whether the
\* header asked for keep-alive.
MkQuestion(command, kw_command, keep_alive) ==
    [command |-> command, kw_command |-> kw_command, keep_alive |-> keep_alive]

\* Question.load: a command inside kwargs replaces the payload's command;
\* data['command'] raises KeyError when there is none.
QuestionLoad(q) ==
    LET cmd == IF q.kw_command # Absent THEN q.kw_command ELSE q.command
    IN IF cmd = Absent THEN [exc |-> "KeyError", command |-> None]
       ELSE [exc |-> None, command |-> cmd]

\* --------------------------------------------------------------- commands
\* The callables registered on the server, with their decorator attributes
\* and what they do when run:
\*   arg_processor: "none" or "raises" (a stock processor rejecting the
\*     arguments with TypeError);
\*   result_processor: "none", "raises" (enforce_return_type rejecting the
\*     value with TypeError) or "json" (return_as_json);
\*   body: "value" (returns value), "raise" (raises Exception),
\*     "tuple" (returns (value, status)), "response" (returns a Response
\*     of its own with code status).
FuncNames == {"artist", "crash", "echo", "secret", "strict", "typed", "op",
              "op_bad", "op_json", "op_str", "custom", "blob", "foo", "bar"}

\* A value the marshaller cannot encode (json.dumps raises TypeError on it)
Unencodable == "<object>"

\* A second element of a returned pair that is not an integer (the str
\* 'teapot'); codes are integers everywhere else.
NotAnInt == -1

Func(name, aliases, former, private, rsc, argp, body, resp, value, status) ==
    [name |-> name, aliases |-> aliases, former_aliases |-> former,
     private |-> private, returns_status_code |-> rsc, arg_processor |-> argp,
     body |-> body, result_processor |-> resp, value |-> value,
     status |-> status]

FuncDef(f) ==
    CASE f = "artist" ->
           Func(f, <<>>, <<"prince">>, FALSE, FALSE, "none", "value", "none", "True", OK)
      [] f = "crash" ->
           Func(f, <<>>, <<>>, FALSE, FALSE, "none", "raise", "none", None, OK)
      [] f = "echo" ->
           Func(f, <<>>, <<>>, FALSE, FALSE, "none", "value", "none", "hi", OK)
      [] f = "secret" ->
           Func(f, <<>>, <<>>, TRUE, FALSE, "none", "value", "none", "secret", OK)
      [] f = "strict" ->
           Func(f, <<>>, <<>>, FALSE, FALSE, "raises", "value", "none", "x", OK)
      [] f = "typed" ->
           Func(f, <<>>, <<>>, FALSE, FALSE, "none", "value", "raises", "x", OK)
      [] f = "op" ->
           Func(f, <<>>, <<>>, FALSE, TRUE, "none", "tuple", "none", "done", 418)
      [] f = "op_bad" ->
           Func(f, <<>>, <<>>, FALSE, TRUE, "none", "value", "none", "done", OK)
      [] f = "op_json" ->
           Func(f, <<>>, <<>>, FALSE, TRUE, "none", "tuple", "json", "['a']", 418)
      [] f = "op_str" ->
           Func(f, <<>>, <<>>, FALSE, TRUE, "none", "tuple", "none", "done", NotAnInt)
      [] f = "custom" ->
           Func(f, <<>>, <<>>, FALSE, FALSE, "none", "response", "none", "foo bar", 667)
      [] f = "blob" ->
           Func(f, <<>>, <<>>, FALSE, FALSE, "none", "value", "none", Unencodable, OK)
      [] OTHER ->
           Func(f, <<>>, <<>>, FALSE, FALSE, "none", "value", "none", f, OK)

\* The interface bundle registered by ServerInterface.register, in dir() order.
InterfaceFuncs == <<"artist", "blob", "crash", "custom", "echo", "op", "op_bad",
                    "op_json", "op_str", "secret", "strict", "typed">>

\* Every key the bundle is registered under: names and former aliases
BundleKeys ==
    UNION {{InterfaceFuncs[i]}
             \cup {FuncDef(InterfaceFuncs[i]).former_aliases[j] :
                      j \in 1..Len(FuncDef(InterfaceFuncs[i]).former_aliases)} :
           i \in 1..Len(InterfaceFuncs)}

\* ServerCommand.process_args
process_args(fn) ==
    IF fn.arg_processor = "raises" THEN [exc |-> "TypeError"] ELSE [exc |-> None]

\* The values that are a list or a dict, and their json.dumps text
JsonText(value) == IF value = "['a']" THEN "[\"a\"]" ELSE None

\* result_processors.standard.return_as_json
return_as_json(value) ==
    IF JsonText(value) = None THEN [exc |-> "ValueError", value |-> None]
    ELSE [exc |-> None, value |-> JsonText(value)]

\* The result handed on as the processors got it
process_result_skipped(fn, value) == [exc |-> None, value |-> value]

\* ServerCommand.process_result
process_result(fn, value) ==
    IF fn.result_processor = "raises" THEN [exc |-> "TypeError", value |-> None]
    ELSE IF fn.result_processor = "json" THEN return_as_json(value)
    ELSE [exc |-> None, value |-> value]

\* ServerCommand.digest(question). Result: the exception that escapes or the
\* Response, and whether the callable was invoked.
CommandDigest(registry, fn) ==
    IF fn.private
    THEN [exc |-> "ClacksCommandIsPrivateError", resp |-> None, called |-> FALSE]
    ELSE IF process_args(fn).exc # None
    THEN [exc |-> process_args(fn).exc, resp |-> None, called |-> FALSE]
    ELSE IF fn.body = "raise"
    THEN [exc |-> "Exception", resp |-> None, called |-> TRUE]
    ELSE IF fn.returns_status_code /\ fn.body # "tuple"
    THEN [exc |-> "ClacksCommandUnexpectedReturnValueError", resp |-> None,
          called |-> TRUE]
    ELSE LET code == IF fn.returns_status_code THEN fn.status ELSE OK
             pr == process_result(fn, fn.value)
         IN IF pr.exc # None
            THEN [exc |-> pr.exc, resp |-> None, called |-> TRUE]
            ELSE IF fn.body = "response"
            THEN [exc |-> None, called |-> TRUE,
                  resp |-> MkResponse(pr.value, fn.status, None, None, <<>>)]
            ELSE [exc |-> ResponseInit(registry, pr.value, code, None, None).exc,
                  resp |-> ResponseInit(registry, pr.value, code, None, None).resp,
                  called |-> TRUE]

\* ----------------------------------------------------------------- keys
\* The keys the model registers and asks for, spelled out in characters.
Keys == {"artist", "blob", "prince", "crash", "custom", "echo", "op", "op_bad",
         "op_json", "op_str", "secret", "strict", "typed", "foo", "nope", ""}

\* Keys that are only ever offered for registration: capitals, a space,
\* and the value None in place of a string.
NoneKey == "<None>"
OddKeys == {"FOO", "bad key", NoneKey}
AllKeys == Keys \cup OddKeys

Spell(key) ==
    CASE key = "artist" -> <<"a", "r", "t", "i", "s", "t">>
      [] key = "prince" -> <<"p", "r", "i", "n", "c", "e">>
      [] key = "blob" -> <<"b", "l", "o", "b">>
      [] key = "crash" -> <<"c", "r", "a", "s", "h">>
      [] key = "custom" -> <<"c", "u", "s", "t", "o", "m">>
      [] key = "echo" -> <<"e", "c", "h", "o">>
      [] key = "op" -> <<"o", "p">>
      [] key = "op_bad" -> <<"o", "p", "_", "b", "a", "d">>
      [] key = "op_json" -> <<"o", "p", "_", "j", "s", "o", "n">>
      [] key = "op_str" -> <<"o", "p", "_", "s", "t", "r">>
      [] key = "secret" -> <<"s", "e", "c", "r", "e", "t">>
      [] key = "strict" -> <<"s", "t", "r", "i", "c", "t">>
      [] key = "typed" -> <<"t", "y", "p", "e", "d">>
      [] key = "foo" -> <<"f", "o", "o">>
      [] key = "nope" -> <<"n", "o", "p", "e">>
      [] key = "FOO" -> <<"F", "O", "O">>
      [] key = "bad key" -> <<"b", "a", "d", " ", "k", "e", "y">>
      [] OTHER -> <<>>

LEGAL_TOKENS == {"a", "b", "c", "d", "e", "f", "g", "h", "i", "j", "k", "l", "m",
                 "n", "o", "p", "q", "r", "s", "t", "u", "v", "w", "x", "y", "z",
                 "_"}

\* str.lower() on one character
Lower(character) ==
    CASE character = "F" -> "f"
      [] character = "O" -> "o"
      [] OTHER -> character

\* is_key_legal: the key is a string and every character of key.lower(),
\* lowered once more, is a legal token
is_key_legal(key) ==
    /\ key # NoneKey
    /\ \A i \in 1..Len(Spell(key)) : Lower(Lower(Spell(key)[i])) \in LEGAL_TOKENS

InSeq(x, s) == \E i \in 1..Len(s) : s[i] = x

\* ServerBase.get_command: self.commands.get(key)
get_command(cmds, key) == IF key \in DOMAIN cmds THEN cmds[key] ELSE None

\* A registration that binds the key whatever is bound to it
_register_command_rebind(st, key, f) ==
    IF ~is_key_legal(key)
    THEN [st EXCEPT !.raised = "KeyError"]
    ELSE [st EXCEPT !.commands = [st.commands EXCEPT ![key] = f]]

\* ServerBase._register_command on the registry state
\* st = [commands, aliases, raised]: an illegal key raises KeyError, a key
\* already bound raises Exception, otherwise the key is bound.
_register_command(st, key, f) ==
    IF ~is_key_legal(key)
    THEN [st EXCEPT !.raised = "KeyError"]
    ELSE IF get_command(st.commands, key) # None
    THEN [st EXCEPT !.raised = "Exception"]
    ELSE [st EXCEPT !.commands = [st.commands EXCEPT ![key] = f]]

\* ServerBase.register_command: the key joins the command's aliases, then
\* _register_command.
register_command(st, key, f) ==
    LET st1 == IF InSeq(key, st.aliases[f]) THEN st
               ELSE [st EXCEPT !.aliases[f] = Append(@, key)]
    IN _register_command(st1, key, f)

RECURSIVE RegisterKeys(_, _, _)
\* the inner loop of ServerInterface.register; a raise ends it
RegisterKeys(st, keys, f) ==
    IF keys = <<>> \/ st.raised # None THEN st
    ELSE RegisterKeys(register_command(st, Head(keys), f), Tail(keys), f)

RECURSIVE RegisterFuncs(_, _)
\* the outer loop of ServerInterface.register over the interface's commands
RegisterFuncs(st, funcs) ==
    IF funcs = <<>> \/ st.raised # None THEN st
    ELSE LET f == Head(funcs)
             st1 == IF InSeq(f, st.aliases[f]) THEN st
                    ELSE [st EXCEPT !.aliases[f] = Append(@, f)]
         IN RegisterFuncs(
                RegisterKeys(st1, st1.aliases[f] \o FuncDef(f).former_aliases, f),
                Tail(funcs))

\* --------------------------------------------------------------- adapters
\* An adapter as registered on the server: its registry key, its class, and
\* the hook of it that raises (None: none does). UserAdapter is an adapter
\* written against the argument lists the server, handler and marshaller call
\* the hooks with; DeprecationWarningsAdapter is the stock adapter.
\* edits and mode describe an adapter that changes the package it is handed:
\* the hook in which it does so, and whether it appends to the warnings of
\* the package ("append") or assigns them ("set").
Adapter(key, cls, raises) ==
    [key |-> key, cls |-> cls, raises |-> raises, edits |-> None, mode |-> None]

\* adapters/profiling.py: the adapter that keeps a profile per transaction id.
\* mode is its enabled attribute ("enabled" or "disabled").
ProfilingAdapter(enabled) ==
    [key |-> "profiling", cls |-> "ProfilingAdapter", raises |-> None,
     edits |-> None, mode |-> IF enabled THEN "enabled" ELSE "disabled"]

EditingAdapter(h, mode) ==
    [key |-> "user", cls |-> "UserAdapter", raises |-> None, edits |-> h,
     mode |-> mode]

\* The hooks of handler.respond that are handed the package
EditedHooks == {"handler_pre_respond", "handler_pre_compile_buffer",
                "marshaller_pre_encode_package"}

EditingAdapters == {EditingAdapter(h, m) : h \in EditedHooks, m \in {"append", "set"}}

\* package.warnings.append('seen') or package.warnings = ['seen']
Edit(a, package) ==
    IF a.mode = "append"
    THEN [package EXCEPT !.warnings = Append(@, "seen")]
    ELSE [package EXCEPT !.warnings = <<"seen">>]

\* The hooks of one receive (handler._recv), in call order
ReceiveHooks == <<"handler_pre_receive_header", "handler_post_receive_header",
                  "handler_pre_receive_content", "marshaller_pre_decode_package",
                  "marshaller_post_decode_package", "handler_post_receive_content">>

\* The hooks of marshaller.encode_package, in call order
EncodeHooks == <<"marshaller_pre_encode_package", "marshaller_post_encode_package">>

\* The hooks of handler.respond that run before the packet is written
PreSendHooks == <<"handler_pre_respond", "handler_pre_compile_buffer",
                  "handler_post_compile_buffer">>

\* The hooks at which the user adapters of the model raise: at least one of
\* each family (receive, queue, digest, encode, respond).
ProbedHooks == {"marshaller_pre_decode_package", "server_pre_add_to_queue",
                "server_post_remove_from_queue", "server_pre_digest",
                "server_post_digest", "handler_pre_respond",
                "marshaller_pre_encode_package", "handler_post_respond"}

UserAdapters == {Adapter("user", "UserAdapter", h) : h \in ProbedHooks \cup {None}}

StockAdapter == Adapter("deprecation_warnings", "DeprecationWarningsAdapter", None)

\* The stock adapter that splits the (value, code) pair of a
\* returns_status_code command
StatusCodeAdapter == Adapter("status_code", "ClacksStatusCodeAdapter", None)

StockClasses == {"DeprecationWarningsAdapter", "ClacksStatusCodeAdapter"}

\* The hooks the stock adapters inherit from ServerAdapterBase with a
\* parameter list shorter than the argument list the server and the
\* marshaller call them with: calling one raises TypeError.
InheritedMismatch ==
    {"server_pre_add_to_queue", "server_post_remove_from_queue",
     "server_pre_digest", "marshaller_pre_encode_package",
     "marshaller_post_encode_package", "marshaller_pre_decode_package",
     "marshaller_post_decode_package"}

\* The same for ProfilingAdapter: the inherited hooks, and its own
\* server_pre_digest and server_post_digest, which have no server parameter.
ProfilingMismatch == InheritedMismatch \cup {"server_post_digest"}

\* What calling hook h of adapter a raises (None: it returns).
HookRaises(a, h) ==
    IF a.cls = "UserAdapter" /\ a.raises = h THEN "HookError"
    ELSE IF a.cls \in StockClasses /\ h \in InheritedMismatch
    THEN "TypeError"
    ELSE IF a.cls = "ProfilingAdapter" /\ h \in ProfilingMismatch
    THEN "TypeError"
    ELSE None

\* A loop "for adapter in adapters: adapter.h(...)": the first exception ends it.
RECURSIVE CallHook(_, _)
CallHook(ads, h) ==
    IF ads = <<>> THEN None
    ELSE IF HookRaises(Head(ads), h) # None THEN HookRaises(Head(ads), h)
    ELSE CallHook(Tail(ads), h)

\* Several such loops one after the other: the first hook that raises and
\* what it raises.
RECURSIVE CallHooks(_, _)
CallHooks(ads, hooks) ==
    IF hooks = <<>> THEN [exc |-> None, hook |-> None]
    ELSE IF CallHook(ads, Head(hooks)) # None
    THEN [exc |-> CallHook(ads, Head(hooks)), hook |-> Head(hooks)]
    ELSE CallHooks(ads, Tail(hooks))

\* ServerBase._initialize: adapter._initialize(self) on every adapter. The
\* inherited ServerAdapterBase._initialize takes no server argument.
InitializeAdapters(ads) ==
    IF \E i \in 1..Len(ads) : ads[i].cls \in StockClasses \cup {"ProfilingAdapter"}
    THEN "TypeError" ELSE None

\* Whether the loop over hook h reaches an enabled ProfilingAdapter and its
\* hook returns, so that the hook stores a profile under the transaction id.
Profiled(ads, h) ==
    \E i \in 1..Len(ads) :
        /\ ads[i].cls = "ProfilingAdapter"
        /\ ads[i].mode = "enabled"
        /\ CallHook(SubSeq(ads, 1, i), h) = None

\* self.adapters[key] = adapter: a new key is added last, a known key keeps
\* its place and gets the new adapter.
SetAdapter(ads, a) ==
    IF \E i \in 1..Len(ads) : ads[i].key = a.key
    THEN [i \in 1..Len(ads) |-> IF ads[i].key = a.key THEN a ELSE ads[i]]
    ELSE Append(ads, a)

\* DeprecationWarningsAdapter.server_post_digest
DeprecationPostDigest(cmds, q, resp) ==
    LET key == QuestionLoad(q).command
        command == get_command(cmds, key)
    IN IF command = None THEN [exc |-> None, resp |-> resp]
       ELSE IF InSeq(key, FuncDef(command).former_aliases)
       THEN [exc |-> None,
             resp |-> [resp EXCEPT !.code = IF @ = OK THEN DEPRECATED ELSE @,
                                   !.warnings = Append(@, "deprecated")]]
       ELSE [exc |-> None, resp |-> resp]

\* ClacksStatusCodeAdapter.server_post_digest: a Response with a traceback
\* and a question for no registered command are left alone; for a registered
\* command srv_command.get(...) is looked up on the ServerCommand, which has
\* no attribute "get".
StatusCodePostDigest(cmds, q, resp) ==
    IF resp.tb # None THEN [exc |-> None, resp |-> resp]
    ELSE IF QuestionLoad(q).exc # None
            \/ get_command(cmds, QuestionLoad(q).command) = None
    THEN [exc |-> None, resp |-> resp]
    ELSE [exc |-> "AttributeError", resp |-> None]

\* One adapter's server_post_digest
AdapterPostDigest(a, cmds, q, resp) ==
    IF HookRaises(a, "server_post_digest") # None
    THEN [exc |-> HookRaises(a, "server_post_digest"), resp |-> None]
    ELSE IF a.cls = "DeprecationWarningsAdapter"
    THEN DeprecationPostDigest(cmds, q, resp)
    ELSE IF a.cls = "ClacksStatusCodeAdapter"
    THEN StatusCodePostDigest(cmds, q, resp)
    ELSE [exc |-> None, resp |-> resp]

\* The server_post_digest loop of ServerBase._respond
RECURSIVE PostDigest(_, _, _, _)
PostDigest(ads, cmds, q, resp) ==
    IF ads = <<>> THEN [exc |-> None, resp |-> resp]
    ELSE LET r == AdapterPostDigest(Head(ads), cmds, q, resp)
         IN IF r.exc # None THEN r
            ELSE PostDigest(Tail(ads), cmds, q, r.resp)

\* ----------------------------------------------------------------- digest
\* The error Response the server builds in an except clause
ErrorResponse(registry, exc) ==
    ResponseInit(registry, None, error_code_from_error(exc), "traceback", exc)

\* ServerBase._digest: the command's digest, any exception turned into an
\* error Response.
_digest(registry, fn) ==
    LET d == CommandDigest(registry, fn)
    IN IF d.exc = None THEN d
       ELSE [exc |-> ErrorResponse(registry, d.exc).exc,
             resp |-> ErrorResponse(registry, d.exc).resp, called |-> d.called]

\* ServerBase.digest
digest(cmds, registry, q) ==
    LET ld == QuestionLoad(q)
    IN IF ld.exc # None
       THEN LET r == ResponseInit(registry, None, BAD_QUESTION, "traceback", ld.exc)
            IN [exc |-> r.exc, resp |-> r.resp, called |-> FALSE]
       ELSE IF get_command(cmds, ld.command) = None
       THEN LET r == ResponseInit(registry, None, NOT_FOUND, "not registered", None)
            IN [exc |-> r.exc, resp |-> r.resp, called |-> FALSE]
       ELSE _digest(registry, FuncDef(get_command(cmds, ld.command)))

\* ServerBase._respond up to the call of handler.respond: the pre-digest
\* hooks, digest with its own except clause, the post-digest hooks.
\* Result: the Response to hand to the handler, or the exception that
\* escapes to __respond; whether the callable ran; the hook that raised.
RespondPrepare(ads, cmds, registry, q) ==
    IF CallHook(ads, "server_pre_digest") # None
    THEN [exc |-> CallHook(ads, "server_pre_digest"), resp |-> None,
          called |-> FALSE, hook |-> "server_pre_digest"]
    ELSE LET d == digest(cmds, registry, q)
             r == IF d.exc = None THEN d
                  ELSE [exc |-> ErrorResponse(registry, d.exc).exc,
                        resp |-> ErrorResponse(registry, d.exc).resp,
                        called |-> d.called]
         IN IF r.exc # None
            THEN [exc |-> r.exc, resp |-> None, called |-> r.called, hook |-> None]
            ELSE LET pd == PostDigest(ads, cmds, q, r.resp)
                 IN [exc |-> pd.exc, resp |-> pd.resp, called |-> r.called,
                     hook |-> IF pd.exc = None THEN None ELSE "server_post_digest"]

\* A loop "for adapter in adapters: adapter.h(..., package)": every adapter
\* may change the package, the first exception ends the loop.
RECURSIVE RunHook(_, _, _)
RunHook(ads, h, package) ==
    IF ads = <<>> THEN [exc |-> None, package |-> package]
    ELSE IF HookRaises(Head(ads), h) # None
    THEN [exc |-> HookRaises(Head(ads), h), package |-> package]
    ELSE RunHook(Tail(ads), h,
                 IF Head(ads).edits = h THEN Edit(Head(ads), package) ELSE package)

\* JSONMarshaller._encode_package: the payload as a sequence of entries, one
\* per field and one per warning; a value json.dumps cannot encode raises.
_encode_package(package) ==
    IF package.response = Unencodable
    THEN [exc |-> "TypeError", bytes |-> <<>>]
    ELSE [exc |-> None,
          bytes |-> <<package.response, package.code, package.tb, package.tb_type>>
                      \o package.warnings]

\* BasePackageMarshaller.encode_package after its pre-encode hooks (pre is
\* their outcome): the encoding and the post-encode hooks. All of it runs
\* inside one try whose except clause logs; byte_buffer is what had been
\* assigned when the exception came.
EncodeAfterHooks(ads, pre) ==
    IF pre.exc # None
    THEN [bytes |-> <<>>, package |-> pre.package,
          hooks |-> {"marshaller_pre_encode_package"}]
    ELSE IF _encode_package(pre.package).exc # None
    THEN [bytes |-> <<>>, package |-> pre.package, hooks |-> {}]
    ELSE [bytes |-> _encode_package(pre.package).bytes, package |-> pre.package,
          hooks |-> IF CallHook(ads, "marshaller_post_encode_package") # None
                    THEN {"marshaller_post_encode_package"} ELSE {}]

\* BasePackageMarshaller.encode_package
encode_package(ads, package) ==
    EncodeAfterHooks(ads, RunHook(ads, "marshaller_pre_encode_package", package))

\* The Response _compile_buffer encodes when the package gave no bytes
BadContent == MkResponse("Bad content", MARSHAL_ERROR, None, None, <<>>)

\* What _compile_buffer returns or raises: the exception that escapes, the
\* body, the declared length, whether the body is the encoded package, the
\* hooks that raised.
Buffer(exc, bytes, content_length, marshalled, hooks) ==
    [exc |-> exc, bytes |-> bytes, content_length |-> content_length,
     marshalled |-> marshalled, hooks |-> hooks]

\* The end of _compile_buffer: the post-compile hooks (post is their outcome)
CompileDone(first, body, again, post) ==
    IF post.exc # None
    THEN Buffer(post.exc, <<>>, 0, FALSE,
                first.hooks \cup body.hooks \cup again.hooks
                    \cup {"handler_post_compile_buffer"})
    ELSE Buffer(None, body.bytes, Len(again.bytes), first.bytes # <<>>,
                first.hooks \cup body.hooks \cup again.hooks)

\* The header built without the comparison of the two lengths
CompileHeader_unchecked(ads, first, body, again) ==
    CompileDone(first, body, again,
                RunHook(ads, "handler_post_compile_buffer", again.package))

\* encode_response_header and get_outgoing_header_data: the Content-Length
\* of the header is the length of a second encoding of the package itself
\* (again, from get_content_length); ValueError when it differs from the
\* length of the body.
CompileHeader(ads, first, body, again) ==
    IF Len(again.bytes) # Len(body.bytes)
    THEN Buffer("ValueError", <<>>, 0, FALSE,
                first.hooks \cup body.hooks \cup again.hooks)
    ELSE CompileDone(first, body, again,
                     RunHook(ads, "handler_post_compile_buffer", again.package))

\* _compile_buffer once the package is encoded (first): the body is the
\* encoded package, or the encoded BadContent when that is empty.
CompileEncoded(ads, first) ==
    CompileHeader(ads, first,
                  IF first.bytes = <<>> THEN encode_package(ads, BadContent)
                  ELSE [first EXCEPT !.hooks = {}],
                  encode_package(ads, first.package))

\* _compile_buffer after its pre-compile hooks (pre is their outcome)
CompileAfterHooks(ads, pre) ==
    IF pre.exc # None
    THEN Buffer(pre.exc, <<>>, 0, FALSE, {"handler_pre_compile_buffer"})
    ELSE CompileEncoded(ads, encode_package(ads, pre.package))

\* BaseRequestHandler._compile_buffer
_compile_buffer(ads, package) ==
    CompileAfterHooks(ads, RunHook(ads, "handler_pre_compile_buffer", package))

\* What one respond call did: which exception escaped, whether the packet
\* was written, whether its body is the marshalled Response, the body and
\* the Content-Length of the packet, the hooks that raised.
Responded(exc, written, buf, hooks) ==
    [exc |-> exc, written |-> written, body |-> written /\ buf.marshalled,
     bytes |-> buf.bytes, content_length |-> buf.content_length, hooks |-> hooks]

\* respond after send (buf is what _compile_buffer gave): only socket.error
\* is caught around send; then the post-respond hooks.
RespondSent(ads, buf) ==
    IF buf.exc # None
    THEN Responded(buf.exc, FALSE, buf, buf.hooks)
    ELSE Responded(CallHook(ads, "handler_post_respond"), TRUE, buf,
                   buf.hooks \cup (IF CallHook(ads, "handler_post_respond") # None
                                   THEN {"handler_post_respond"} ELSE {}))

\* respond after its pre-respond hooks (pre is their outcome)
RespondAfterHooks(ads, pre) ==
    IF pre.exc # None
    THEN Responded(pre.exc, FALSE, Buffer(None, <<>>, 0, FALSE, {}),
                   {"handler_pre_respond"})
    ELSE RespondSent(ads, _compile_buffer(ads, pre.package))

\* BaseRequestHandler.respond (with send) for one Response
HandlerRespondOp(ads, response) ==
    RespondAfterHooks(ads, RunHook(ads, "handler_pre_respond", response))

\* Taking the newest item instead
pop_last(q) == [item |-> q[Len(q)], rest |-> SubSeq(q, 1, Len(q) - 1)]

\* self.queue.pop(0)
pop(q) == [item |-> Head(q), rest |-> Tail(q)]

\* ------------------------------------------------------------------ state
VARIABLES
    commands,        \* ServerBase.commands: key -> registered command or None
    aliases,         \* ServerCommand.aliases of each command
    last_reg,        \* the last register_command call and how it ended
    regs,            \* registration calls made so far
    error_registry,  \* errors.constants.error_registry
    adapters,        \* ServerBase.adapters, in insertion order
    boot,            \* "new", "started" (start() returned), "failed" (it raised)
    pool,            \* the questions the clients of this run send
    tx_limit,        \* how many packets the clients of this run send
    next_txid,       \* the next transaction id
    session,         \* per connection: the state of its session thread
    received,        \* per connection: packets read from it so far
    queue,           \* ServerBase.queue
    busy,            \* ServerBase.busy
    worker,          \* where the queue worker thread is
    cur,             \* the transaction the worker holds
    outcome,         \* what _respond has produced for it so far
    dispatched,      \* the transactions taken off the queue, in order
    respond_log,     \* every handler.respond call, in order
    invoked,         \* transactions whose command callable was run
    faults,          \* <<txid, hook>>: hooks that raised
    dropped,         \* transactions lost before they reached the queue
    clients,         \* the members of the list ServerBase.clients
    connections,     \* the keys of ServerBase.connections
    sock,            \* per connection: the server's socket ("none": not accepted)
    keep_alive,      \* handler.connection_keep_alive.get(connection, False)
    idle,            \* per connection: timed-out reads since timestamps[connection]
    framing_errors,  \* per connection: headers that could not be decoded
    discs,           \* _disconnect_client calls made so far
    last_disc,       \* the last _disconnect_client call and how it ended
    payload,         \* the payload handed to the simple marshaller
    wire,            \* the text encode_package made of it
    decoded,         \* what decode_package made of that text
    stage,           \* "none", "payload", "encoded", "decoded"
    handler,         \* the handler: "none", "registered" (register_handler), "listening"
    handler_adapters,\* BaseRequestHandler.adapters (and its marshaller's), a list
    reg_log,         \* the adapters of the register_adapter calls, in call order
    reg_limit,       \* how many register_adapter calls this run makes
    command_profiles,        \* keys of ProfilingAdapter.command_profiles
    buffer_compile_profiles, \* keys of ProfilingAdapter.buffer_compile_profiles
    clock,           \* time.time() of the client, in ticks
    platform,        \* what getsockname() does on a socket that was never connected
    psock,           \* ClientProxyBase.socket: "open", "connected"; "eof", "reset"
                     \* once the server has closed the connection or it has failed
    ppc,             \* where the proxy is: "new", "connecting", "listing", "ready", ...
    retries,         \* the local retries of connect()
    attempts,        \* socket.connect calls made so far
    calls,           \* timed questions asked so far
    caller,          \* the timed question the caller is in, and where
    threads,         \* per timed question: its _send thread
    box,             \* per timed question: its list named response
    pending,         \* questions the server holds and has not answered
    inflight,        \* responses written by the server, not yet read
    arrival,         \* per question: when its response was read (0: not yet)
    results,         \* per timed question: how it ended
    cached,          \* the question whose response connect() cached (0: none)
    threaded_digest, \* ServerBase.threaded_digest
    queue_started,   \* ServerBase.queue_started
    tickers,         \* the threads start_queue has started: where each is in tick_queue
    queue_threads,   \* ServerBase.queue_threads: the threads of a threaded digest
    responses,       \* QueuedServerCommand.responses: transaction id -> slot
    qcalls,          \* the calls of QueuedServerCommand.queue, and where each is
    started,         \* ServerCommandDigestLoggingHandler.started
    captured,        \* its warnings and errors: the thread of each record (0: no digest)
    lpc,             \* per transaction: where _respond is
    emitted,         \* per transaction: WARNING/ERROR records its digest has logged
    foreign,         \* WARNING/ERROR records logged by session threads and accept loops
    attached,        \* per transaction: the records put into its Response
    to_send,         \* the bytes of the client's packets it has not written yet
    stream,          \* the bytes written to the connection and not read yet
    reader,          \* _recv on that connection: where it is, and its buffers
    delivered,       \* what the _recv calls returned, in order
    recv_errors,     \* the _recv calls an exception left
    stopped,         \* ServerBase.stopped
    client_list,     \* ServerBase.clients as the list it is, in order of arrival
    listening,       \* whether the listening sockets of the server are open
    last_end,        \* the last end() call: how it ended, the server before and after
    required,        \* per interface or adapter class: the keys it requires
    req_top,         \* the key of the registration call the program made (None: none yet)
    req_stack,       \* the register_interface / register_adapter calls in progress
    registered,      \* the keys of ServerBase.interfaces and ServerBase.adapters
    times,           \* per key: how often an object was stored under it
    req_outcome      \* how the call of the program ended

vars == <<commands, aliases, last_reg, regs, error_registry, adapters, boot,
          pool, tx_limit, next_txid, session, received, queue, busy, worker,
          cur, outcome, dispatched, respond_log, invoked, faults, dropped,
          clients, connections, sock, keep_alive, idle, framing_errors, discs,
          last_disc, payload, wire, decoded, stage, handler, handler_adapters,
          reg_log, reg_limit, command_profiles, buffer_compile_profiles,
          clock, platform, psock, ppc, retries, attempts, calls, caller,
          threads, box, pending, inflight, arrival, results, cached,
          threaded_digest, queue_started, tickers, queue_threads,
          responses, qcalls, started, captured, lpc, emitted, foreign, attached,
          to_send, stream, reader, delivered, recv_errors,
          stopped, client_list, listening, last_end,
          required, req_top, req_stack, registered, times, req_outcome>>

setup_vars == <<commands, aliases, last_reg, regs, error_registry, adapters,
                boot>>
wire_vars == <<payload, wire, decoded, stage>>
adapter_vars == <<handler, handler_adapters, reg_log, reg_limit>>
profile_vars == <<command_profiles, buffer_compile_profiles>>
proxy_vars == <<clock, platform, psock, ppc, retries, attempts, calls, caller,
                threads, box, pending, inflight, arrival, results, cached>>
queue_vars == <<threaded_digest, queue_started, tickers, queue_threads>>
queued_vars == <<responses, qcalls>>
logging_vars == <<started, captured, lpc, emitted, foreign, attached>>
framing_vars == <<to_send, stream, reader, delivered, recv_errors>>
end_vars == <<stopped, client_list, listening, last_end>>
require_vars == <<required, req_top, req_stack, registered, times, req_outcome>>
other_vars == <<queued_vars, logging_vars, framing_vars, end_vars, require_vars>>
env_vars == <<pool, tx_limit, wire_vars, adapter_vars, profile_vars, proxy_vars, other_vars,
              queue_vars>>
client_vars == <<clients, connections, sock, keep_alive, idle, framing_errors,
                 discs, last_disc>>
run_vars == <<next_txid, session, received, queue, busy, worker, cur, outcome,
              dispatched, respond_log, invoked, faults, dropped, client_vars>>
worker_vars == <<busy, worker, cur, outcome, dispatched, respond_log, invoked>>

\* The questions clients send: the "command" entry, keep-alive asked for.
Q(command) == MkQuestion(command, Absent, TRUE)

AllQuestions ==
    {Q(k) : k \in Keys \cup {Absent}}
        \cup {MkQuestion(Absent, "echo", TRUE), MkQuestion("echo", Absent, FALSE)}

PipelineQuestions == {Q("echo"), Q("crash")}

\* ServerBase.__init__: no handler registered, no adapter registered
\* ProfilingAdapter.__init__: both dicts empty
NoProfiles == command_profiles = {} /\ buffer_compile_profiles = {}

\* ClientProxyBase.__init__(address, handler, connect=False): a socket that
\* was never connected, no question asked.
Calls == 1..MaxCalls

NoResult == [kind |-> "none", q |-> 0, start |-> 0, timeout |-> 0, at |-> 0]

NewProxy ==
    /\ clock = 1
    /\ psock = "open"
    /\ ppc = "new"
    /\ retries = 0
    /\ attempts = 0
    /\ calls = 0
    /\ caller = [pc |-> "idle", k |-> 0, start |-> 0, timeout |-> 0, slept |-> 0]
    /\ threads = [k \in Calls |-> "none"]
    /\ box = [k \in Calls |-> <<>>]
    /\ pending = <<>>
    /\ inflight = <<>>
    /\ arrival = [k \in Calls |-> 0]
    /\ results = [k \in Calls |-> NoResult]
    /\ cached = 0

\* socket.getsockname() on a socket that was never connected returns an
\* address on POSIX systems and raises WSAEINVAL with Winsock.
Platforms == {"posix", "winsock"}

NoProxy == NewProxy /\ platform = "posix"

\* The threads that run tick_queue in a loop, and the item each holds
Workers == 1..MaxWorkers

NoTx == [conn |-> 0, txid |-> 0, seq |-> 0, q |-> Q("echo")]

NoTickers == [w \in Workers |-> [pc |-> "none", item |-> NoTx]]

\* start_queue(): one more thread looping over tick_queue
NewTicker(tk) ==
    LET w == CHOOSE w \in Workers :
                 tk[w].pc = "none" /\ \A v \in 1..(w - 1) : tk[v].pc # "none"
    IN [tk EXCEPT ![w].pc = "top"]

\* ServerBase.__init__(start_queue, threaded_digest)
Constructed(start_queue, threaded) ==
    /\ threaded_digest = threaded
    /\ queue_started = start_queue
    /\ tickers = IF start_queue THEN NewTicker(NoTickers) ELSE NoTickers
    /\ queue_threads = <<>>

\* ServerBase(): start_queue=True, threaded_digest=False
DefaultQueue == Constructed(TRUE, FALSE)

\* The transaction ids QueuedServerCommand.queue generates (uuid4: each new)
QCalls == 1..MaxQueuedCalls

NoCall == [pc |-> "none", parent |-> 0, nests |-> FALSE]

\* QueuedServerCommand.__init__: self.responses = dict()
NoQueued ==
    /\ responses = [k \in QCalls |-> "absent"]
    /\ qcalls = [k \in QCalls |-> NoCall]

\* The transactions whose log records are followed
LogTx == 1..MaxLogTx

\* ServerCommandDigestLoggingHandler.__init__, and no transaction yet
NoLogging ==
    /\ started = FALSE
    /\ captured = <<>>
    /\ lpc = [t \in LogTx |-> "queued"]
    /\ emitted = [t \in LogTx |-> 0]
    /\ foreign = 0
    /\ attached = [t \in LogTx |-> <<>>]

\* A connection nothing is written to, and a handler that has read nothing
AtHeader == [pc |-> "header", header |-> <<>>, need |-> 0, content |-> <<>>]

NoTraffic ==
    /\ to_send = <<>>
    /\ stream = <<>>
    /\ reader = AtHeader
    /\ delivered = <<>>
    /\ recv_errors = 0

\* What end() can see and change
ServerState(stop, cls, lis) == [stopped |-> stop, clients |-> cls, listening |-> lis]

\* A started server nobody has connected to or ended
NeverEnded ==
    /\ stopped = FALSE
    /\ client_list = <<>>
    /\ listening = TRUE
    /\ last_end = [result |-> None, before |-> ServerState(FALSE, <<>>, TRUE),
                   after |-> ServerState(FALSE, <<>>, TRUE)]

\* The interface and adapter classes of the registries: one interface key,
\* two adapter keys
InterfaceKeys == {"i1"}
AdapterKeys == {"a1", "a2"}
RequireKeys == InterfaceKeys \cup AdapterKeys

\* Nothing registered, no registration call made
NothingRegistered ==
    /\ req_top = None
    /\ req_stack = <<>>
    /\ registered = {}
    /\ times = [n \in RequireKeys |-> 0]
    /\ req_outcome = None

\* Classes that require nothing
NoRequirements == required = [n \in RequireKeys |-> {}] /\ NothingRegistered

\* The parts of the program a run does not use, as construction leaves them
Untouched == NoQueued /\ NoLogging /\ NoTraffic /\ NeverEnded /\ NoRequirements

NoHandler ==
    /\ handler = "none"
    /\ handler_adapters = <<>>
    /\ reg_log = <<>>

\* No payload has been handed to the simple marshaller
NoPackage ==
    /\ payload = <<>>
    /\ wire = <<>>
    /\ decoded = [exc |-> None, data |-> {}]
    /\ stage = "none"

\* ServerBase.__init__ (start_queue=True, threaded_digest=False): an empty
\* queue, an idle worker thread, no client.
InitRun ==
    /\ next_txid = 1
    /\ session = [c \in Conns |-> "none"]
    /\ received = [c \in Conns |-> 0]
    /\ queue = <<>>
    /\ busy = FALSE
    /\ worker = "idle"
    /\ cur = None
    /\ outcome = None
    /\ dispatched = <<>>
    /\ respond_log = <<>>
    /\ invoked = {}
    /\ faults = {}
    /\ dropped = {}
    /\ clients = {}
    /\ connections = {}
    /\ sock = [c \in Conns |-> "none"]
    /\ keep_alive = [c \in Conns |-> FALSE]
    /\ idle = [c \in Conns |-> 0]
    /\ framing_errors = [c \in Conns |-> 0]
    /\ discs = 0
    /\ last_disc = [address |-> [shape |-> None, items |-> <<>>], result |-> None,
                    before |-> [clients |-> {}, connections |-> {},
                                sock |-> [c \in Conns |-> "none"]],
                    after |-> [clients |-> {}, connections |-> {},
                               sock |-> [c \in Conns |-> "none"]]]

\* The registry of a new server
NoCommands == [commands |-> [k \in AllKeys |-> None],
               aliases |-> [f \in FuncNames |-> FuncDef(f).aliases],
               raised |-> None]

\* The state after construction: nothing registered, not started.
Init ==
    /\ commands = NoCommands.commands
    /\ aliases = NoCommands.aliases
    /\ last_reg = None
    /\ regs = 0
    /\ error_registry = DefaultErrorRegistry
    /\ adapters = <<>>
    /\ boot = "new"
    /\ pool = {}
    /\ tx_limit = 0
    /\ InitRun
    /\ NoPackage
    /\ NoHandler
    /\ NoProfiles
    /\ Untouched
    /\ NoProxy
    /\ DefaultQueue
    /\ reg_limit = MaxSetupAdapters

\* ---------------------------------------------------------------- bring-up
RegState == [commands |-> commands, aliases |-> aliases, raised |-> None]

\* server.register_command(key, f) for a plain callable f
RegisterCommand(key, f) ==
    /\ boot = "new"
    /\ regs < MaxRegs
    /\ LET st == register_command(RegState, key, f)
       IN /\ commands' = st.commands
          /\ aliases' = st.aliases
          /\ last_reg' = [keys |-> {key}, fn |-> f, before |-> commands,
                          raised |-> st.raised]
    /\ regs' = regs + 1
    /\ UNCHANGED <<error_registry, adapters, boot, env_vars, run_vars>>

\* interface.register(server): every command of the bundle under each of its keys
RegisterInterface ==
    /\ boot = "new"
    /\ regs < MaxRegs
    /\ LET st == RegisterFuncs(RegState, InterfaceFuncs)
       IN /\ commands' = st.commands
          /\ aliases' = st.aliases
          /\ last_reg' = [keys |-> BundleKeys, fn |-> "*", before |-> commands,
                          raised |-> st.raised]
    /\ regs' = regs + 1
    /\ UNCHANGED <<error_registry, adapters, boot, env_vars, run_vars>>

\* register_error_type('exception', Exception)
RegisterErrorType ==
    /\ boot = "new"
    /\ ~(\E p \in error_registry : p[1] = "exception")
    /\ error_registry' = error_registry \cup {<<"exception", "Exception">>}
    /\ UNCHANGED <<commands, aliases, last_reg, regs, adapters, boot, env_vars,
                   run_vars>>

\* How often register_adapter hands the adapter to the handler: once per
\* key of handler_threads that leads to it (the handler itself once its
\* socket is listening, every client thread) and once for its key in
\* handler_addresses.
HandlerCopies ==
    (IF handler = "listening" THEN 1 ELSE 0) + Cardinality(clients)
        + (IF handler # "none" THEN 1 ELSE 0)

\* server.register_adapter(key, adapter), before or after start():
\* self.adapters[key] = adapter, then handler.register_adapter(adapter)
\* (an append) in the two loops.
RegisterAdapter(a) ==
    /\ boot # "failed"
    /\ Len(reg_log) < reg_limit
    /\ adapters' = SetAdapter(adapters, a)
    /\ handler_adapters' = handler_adapters \o [i \in 1..HandlerCopies |-> a]
    /\ reg_log' = Append(reg_log, a)
    /\ UNCHANGED <<commands, aliases, last_reg, regs, error_registry, boot,
                   pool, tx_limit, wire_vars, handler, reg_limit, profile_vars,
                   proxy_vars, other_vars, queue_vars, run_vars>>

\* server.register_handler(host, port, handler): the handler is handed the
\* adapters of the server, in the order of self.adapters.values()
RegisterHandler ==
    /\ handler = "none"
    /\ boot = "new"
    /\ handler' = "registered"
    /\ handler_adapters' = handler_adapters \o adapters
    /\ UNCHANGED <<setup_vars, pool, tx_limit, wire_vars, reg_log, reg_limit,
                   profile_vars, proxy_vars, other_vars, queue_vars,
                   run_vars>>

\* server.start(): _initialize, then the listening sockets are opened, and
\* start_queue() unless the queue was started before
Start ==
    /\ boot = "new"
    /\ boot' = IF InitializeAdapters(adapters) # None THEN "failed" ELSE "started"
    /\ handler' = IF InitializeAdapters(adapters) = None /\ handler = "registered"
                  THEN "listening" ELSE handler
    /\ IF InitializeAdapters(adapters) = None /\ ~queue_started
       THEN tickers' = NewTicker(tickers) /\ queue_started' = TRUE
       ELSE UNCHANGED <<tickers, queue_started>>
    /\ UNCHANGED <<commands, aliases, last_reg, regs, error_registry, adapters,
                   pool, tx_limit, wire_vars, handler_adapters, reg_log, reg_limit,
                   profile_vars, proxy_vars, other_vars, threaded_digest, queue_threads,
                   run_vars>>

\* ------------------------------------------------------------------ sessions
\* ServerBase.remove_client on the client table st = [clients, connections,
\* raised]: a client that is not in the list raises ValueError. (The list
\* holds every client once, and each client has an address of its own, so
\* the order of the list decides nothing.)
remove_client(st, c) ==
    IF c \notin st.clients THEN [st EXCEPT !.raised = "ValueError"]
    ELSE [st EXCEPT !.clients = st.clients \ {c},
                    !.connections = st.connections \ {c}]

ClientTable == [clients |-> clients, connections |-> connections, raised |-> None]

\* accept_socket + add_client: a client connects, joins the client table and
\* the connection map, and its session thread starts (ServerClient.start,
\* recv_forever stamps the connection).
Connect(c) ==
    /\ boot = "started"
    /\ next_txid <= tx_limit
    /\ session[c] = "none"
    /\ session' = [session EXCEPT ![c] = "open"]
    /\ sock' = [sock EXCEPT ![c] = "open"]
    /\ clients' = clients \cup {c}
    /\ connections' = connections \cup {c}
    /\ idle' = [idle EXCEPT ![c] = 0]
    /\ UNCHANGED <<setup_vars, env_vars, next_txid, received, queue,
                   worker_vars, faults, dropped, keep_alive, framing_errors,
                   discs, last_disc>>

\* One round of recv_forever on connection c: _recv reads a packet holding
\* question q, the connection is stamped and its keep-alive flag set from
\* the header, then server.add_to_queue. An exception inside _recv is logged
\* and the loop goes on without the packet; one out of add_to_queue ends the
\* session thread (ServerClient.start catches socket.error only). Without
\* keep-alive recv_forever returns after add_to_queue and ServerClient.start
\* calls remove_client.
Recv(c, q) ==
    /\ session[c] = "open"
    /\ next_txid <= tx_limit
    /\ q \in pool
    /\ LET tx == [conn |-> c, txid |-> next_txid, seq |-> received[c] + 1, q |-> q]
           rcv == CallHooks(handler_adapters, ReceiveHooks)
           add == CallHook(adapters, "server_pre_add_to_queue")
       IN /\ next_txid' = next_txid + 1
          /\ received' = [received EXCEPT ![c] = @ + 1]
          /\ IF rcv.exc # None
             THEN /\ faults' = faults \cup {<<tx.txid, rcv.hook>>}
                  /\ dropped' = dropped \cup {tx}
                  /\ UNCHANGED <<queue, session, clients, connections,
                                 keep_alive, idle>>
             ELSE /\ idle' = [idle EXCEPT ![c] = 0]
                  /\ keep_alive' = [keep_alive EXCEPT ![c] = q.keep_alive]
                  /\ IF add # None
                     THEN /\ faults' = faults \cup
                                 {<<tx.txid, "server_pre_add_to_queue">>}
                          /\ dropped' = dropped \cup {tx}
                          /\ session' = [session EXCEPT ![c] = "crashed"]
                          /\ UNCHANGED <<queue, clients, connections>>
                     ELSE /\ queue' = Append(queue, tx)
                          /\ UNCHANGED <<faults, dropped>>
                          /\ IF q.keep_alive
                             THEN UNCHANGED <<session, clients, connections>>
                             ELSE /\ session' = [session EXCEPT ![c] = "ended"]
                                  /\ clients' = remove_client(ClientTable, c).clients
                                  /\ connections' =
                                        remove_client(ClientTable, c).connections
    /\ UNCHANGED <<setup_vars, env_vars, worker_vars, sock, framing_errors,
                   discs, last_disc>>

\* One round of recv_forever on connection c in which _recv returns no header:
\* the read timed out or the peer has gone away. With the keep-alive flag
\* set the loop sleeps and goes on; without it the connection is closed, the
\* loop left, and ServerClient.start calls remove_client. (The comparison of
\* the idle time with CONNECTION_LIFETIME comes after both and is never
\* reached.) An exception out of a hook inside _recv is logged and the loop
\* goes on.
ReadNothing(c) ==
    /\ session[c] = "open"
    /\ idle[c] <= LifetimeTicks
    /\ idle' = [idle EXCEPT ![c] = @ + 1]
    /\ IF CallHook(handler_adapters, "handler_pre_receive_header") # None \/ keep_alive[c]
       THEN UNCHANGED <<session, sock, clients, connections>>
       ELSE /\ sock' = [sock EXCEPT ![c] = "closed"]
            /\ session' = [session EXCEPT ![c] = "ended"]
            /\ clients' = remove_client(ClientTable, c).clients
            /\ connections' = remove_client(ClientTable, c).connections
    /\ UNCHANGED <<setup_vars, env_vars, next_txid, received, queue, worker_vars,
                   faults, dropped, keep_alive, framing_errors, discs, last_disc>>

\* One round of recv_forever on connection c in which _recv_header reads
\* bytes it cannot decode: it raises Exception('Could not decode header'),
\* recv_forever logs it and goes on with the next round.
BadHeader(c) ==
    /\ session[c] = "open"
    /\ next_txid <= tx_limit
    /\ next_txid' = next_txid + 1
    /\ framing_errors' = [framing_errors EXCEPT ![c] = @ + 1]
    /\ UNCHANGED <<setup_vars, env_vars, session, received, queue, worker_vars,
                   faults, dropped, clients, connections, sock, keep_alive, idle,
                   discs, last_disc>>

\* ------------------------------------------------------- disconnect_client
\* A Python value: a str (its characters), an int, or one of the values
\* of the simple marshaller section
PyStr(chars) == [type |-> "str", chars |-> chars, v |-> 0, items |-> <<>>]
PyInt(v) == [type |-> "int", chars |-> <<>>, v |-> v, items |-> <<>>]

\* An argument of _disconnect_client: a list or tuple of values, or None
Address(shape, items) == [shape |-> shape, items |-> items]

DIGITS == <<"0", "1", "2", "3", "4", "5", "6", "7", "8", "9">>

DigitValue(ch) == (CHOOSE i \in 1..10 : DIGITS[i] = ch) - 1

\* int(text) for a str of decimal digits; ValueError for anything else
RECURSIVE ParseInt(_, _)
ParseInt(chars, acc) ==
    IF chars = <<>> THEN [exc |-> None, v |-> acc]
    ELSE IF ~InSeq(Head(chars), DIGITS) THEN [exc |-> "ValueError", v |-> 0]
    ELSE ParseInt(Tail(chars), acc * 10 + DigitValue(Head(chars)))

\* int(value)
IntOf(value) ==
    IF value.type = "int" THEN [exc |-> None, v |-> value.v]
    ELSE IF value.chars = <<>> THEN [exc |-> "ValueError", v |-> 0]
    ELSE ParseInt(value.chars, 0)

\* str(n) for n >= 0
RECURSIVE DigitsOf(_)
DigitsOf(n) ==
    IF n < 10 THEN <<DIGITS[n + 1]>>
    ELSE Append(DigitsOf(n \div 10), DIGITS[(n % 10) + 1])

\* str(value)
StrOf(value) == IF value.type = "str" THEN value.chars ELSE DigitsOf(value.v)

\* The peer address accept() returned for connection c: (host, port)
HostChars == <<"h", "o", "s", "t">>
BasePort == 50
PeerAddress(c) == <<HostChars, BasePort + c>>

\* The arguments _disconnect_client is called with
DisconnectInputs ==
    {Address("none", <<>>),
     Address("list", <<PyStr(<<"l">>), PyStr(<<"o">>), PyStr(<<"b">>), PyStr(<<"l">>)>>),
     Address("tuple", <<PyStr(<<"b", "a", "d">>), PyStr(<<"v", "a", "l">>)>>),
     Address("tuple", <<PyStr(HostChars), PyStr(DigitsOf(BasePort))>>)}
        \cup {Address("tuple", <<PyStr(HostChars), PyInt(BasePort + c)>>) : c \in Conns}
        \cup {Address("list", <<PyStr(HostChars), PyStr(DigitsOf(BasePort + c))>>) :
                c \in Conns}

\* The client of the list whose address is addr (0: none)
FirstClientAt(cls, addr) ==
    IF \E c \in cls : PeerAddress(c) = addr
    THEN CHOOSE c \in cls : PeerAddress(c) = addr
    ELSE 0

\* ServerBase._disconnect_client on the client table: what it returns or
\* raises, and the table after it
_disconnect_client(st, address) ==
    IF address.shape \notin {"list", "tuple"} \/ Len(address.items) # 2
    THEN [result |-> "ValueError", st |-> st]
    ELSE IF IntOf(address.items[2]).exc # None
    THEN [result |-> "ValueError", st |-> st]
    ELSE LET addr == <<StrOf(address.items[1]), IntOf(address.items[2]).v>>
             client == FirstClientAt(st.clients, addr)
         IN IF client = 0 THEN [result |-> "False", st |-> st]
            ELSE [result |-> "True", st |-> remove_client(st, client)]

\* What a _disconnect_client call can see and change
Snapshot(cls, conns, sk) == [clients |-> cls, connections |-> conns, sock |-> sk]

\* server._disconnect_client(address), called while the server serves
DisconnectClient(address) ==
    /\ boot = "started"
    /\ discs < MaxDiscs
    /\ discs' = discs + 1
    /\ LET r == _disconnect_client(ClientTable, address)
       IN /\ clients' = r.st.clients
          /\ connections' = r.st.connections
          /\ last_disc' = [address |-> address, result |-> r.result,
                           before |-> Snapshot(clients, connections, sock),
                           after |-> Snapshot(r.st.clients, r.st.connections, sock)]
    /\ UNCHANGED <<setup_vars, env_vars, next_txid, session, received, queue,
                   worker_vars, faults, dropped, sock, keep_alive, idle,
                   framing_errors>>

\* ------------------------------------------------------------ queue worker
\* tick_queue up to the call of __respond: take the head of the queue and run
\* the server_post_remove_from_queue hooks. An exception there leaves
\* tick_queue and the worker's loop.
TickDequeue ==
    /\ worker = "idle"
    /\ queue # <<>>
    /\ ~busy
    /\ busy' = TRUE
    /\ cur' = pop(queue).item
    /\ queue' = pop(queue).rest
    /\ dispatched' = Append(dispatched, pop(queue).item)
    /\ IF CallHook(adapters, "server_post_remove_from_queue") # None
       THEN /\ worker' = "dead"
            /\ faults' = faults \cup
                    {<<pop(queue).item.txid, "server_post_remove_from_queue">>}
       ELSE /\ worker' = "dequeued"
            /\ UNCHANGED faults
    /\ UNCHANGED <<setup_vars, env_vars, next_txid, session, received, outcome,
                   respond_log, invoked, dropped, client_vars>>

\* _respond up to the call of handler.respond
Digest ==
    /\ worker = "dequeued"
    /\ LET r == RespondPrepare(adapters, commands, error_registry, cur.q)
       IN /\ outcome' = [exc |-> r.exc, resp |-> r.resp]
          /\ invoked' = IF r.called THEN invoked \cup {cur.txid} ELSE invoked
          /\ faults' = IF r.hook = None THEN faults
                       ELSE faults \cup {<<cur.txid, r.hook>>}
    /\ command_profiles' = IF Profiled(adapters, "server_pre_digest")
                           THEN command_profiles \cup {cur.txid}
                           ELSE command_profiles
    /\ worker' = "prepared"
    /\ UNCHANGED <<setup_vars, pool, tx_limit, wire_vars, adapter_vars, proxy_vars, other_vars, queue_vars,
                   buffer_compile_profiles, next_txid, session, received, queue,
                   busy, cur, dispatched, respond_log, dropped, client_vars>>

\* Whether a handler.respond call gets as far as _compile_buffer: its
\* handler_pre_respond hooks return.
Compiles(ads) == CallHook(ads, "handler_pre_respond") = None

\* One handler.respond call as the log keeps it
LogEntry(tx, resp, fallback, r) ==
    [conn |-> tx.conn, txid |-> tx.txid, seq |-> tx.seq, q |-> tx.q, resp |-> resp,
     fallback |-> fallback, written |-> r.written, body |-> r.body,
     bytes |-> r.bytes, content_length |-> r.content_length]

\* The rest of _respond and __respond, and the end of tick_queue:
\* handler.respond with the Response; on an exception (from _respond or from
\* that respond) the fallback Response of __respond and a second
\* handler.respond. An exception that leaves __respond leaves tick_queue and
\* the worker's loop, with busy still set.
HandlerRespond ==
    /\ worker = "prepared"
    /\ LET first == outcome.exc = None
           r == HandlerRespondOp(handler_adapters, outcome.resp)
           log1 == IF first
                   THEN Append(respond_log, LogEntry(cur, outcome.resp, FALSE, r))
                   ELSE respond_log
           flt == IF first THEN {<<cur.txid, h>> : h \in r.hooks} ELSE {}
           exc == IF first THEN r.exc ELSE outcome.exc
           fb == ErrorResponse(error_registry, exc)
           r2 == HandlerRespondOp(handler_adapters, fb.resp)
       IN IF exc = None
          THEN /\ respond_log' = log1
               /\ faults' = faults \cup flt
               /\ worker' = "idle"
               /\ busy' = FALSE
               /\ cur' = None
          ELSE IF fb.exc # None
          THEN /\ respond_log' = log1
               /\ faults' = faults \cup flt
               /\ worker' = "dead"
               /\ UNCHANGED <<busy, cur>>
          ELSE /\ respond_log' = Append(log1, LogEntry(cur, fb.resp, TRUE, r2))
               /\ faults' = faults \cup flt \cup {<<cur.txid, h>> : h \in r2.hooks}
               /\ IF r2.exc # None
                  THEN worker' = "dead" /\ UNCHANGED <<busy, cur>>
                  ELSE worker' = "idle" /\ busy' = FALSE /\ cur' = None
    /\ outcome' = None
    /\ buffer_compile_profiles' =
            IF /\ outcome.exc = None \/ ErrorResponse(error_registry, outcome.exc).exc = None
               /\ Compiles(handler_adapters)
               /\ Profiled(handler_adapters, "handler_pre_compile_buffer")
            THEN buffer_compile_profiles \cup {cur.txid}
            ELSE buffer_compile_profiles
    /\ UNCHANGED <<setup_vars, pool, tx_limit, wire_vars, adapter_vars, proxy_vars, other_vars, queue_vars,
                   command_profiles, next_txid, session, received, queue,
                   dispatched, invoked, dropped, client_vars>>

\* ------------------------------------------------------- simple marshaller
\* The other values a payload entry can hold. A bool is the int 1 or 0; a
\* float is kept in tenths (v = 2 is 0.2); a list or tuple holds ints; the
\* dict is {"k": n}.
PyBool(b) == [type |-> "bool", chars |-> <<>>, v |-> IF b THEN 1 ELSE 0, items |-> <<>>]
PyFloat(tenths) == [type |-> "float", chars |-> <<>>, v |-> tenths, items |-> <<>>]
PyNone == [type |-> "None", chars |-> <<>>, v |-> 0, items |-> <<>>]
PyList(items) == [type |-> "list", chars |-> <<>>, v |-> 0, items |-> items]
PyTuple(items) == [type |-> "tuple", chars |-> <<>>, v |-> 0, items |-> items]
PyDict(n) == [type |-> "dict", chars |-> <<>>, v |-> 0, items |-> <<n>>]

\* value.__class__.__name__ in characters
TypeName(t) ==
    CASE t = "dict" -> <<"d", "i", "c", "t">>
      [] t = "None" -> <<"N", "o", "n", "e">>
      [] t = "str" -> <<"s", "t", "r">>
      [] t = "list" -> <<"l", "i", "s", "t">>
      [] t = "tuple" -> <<"t", "u", "p", "l", "e">>
      [] t = "bool" -> <<"b", "o", "o", "l">>
      [] t = "int" -> <<"i", "n", "t">>
      [] OTHER -> <<"f", "l", "o", "a", "t">>

\* str(val) of a value that is not a container
Text(value) ==
    CASE value.type = "str" -> value.chars
      [] value.type = "bool" ->
           IF value.v = 1 THEN <<"T", "r", "u", "e">> ELSE <<"F", "a", "l", "s", "e">>
      [] value.type = "int" -> DigitsOf(value.v)
      [] value.type = "float" ->
           DigitsOf(value.v \div 10) \o <<".">> \o DigitsOf(value.v % 10)
      [] OTHER -> <<"N", "o", "n", "e">>

RECURSIVE JoinInts(_)
\* ', '.join of the items of a list of ints
JoinInts(items) ==
    IF items = <<>> THEN <<>>
    ELSE IF Len(items) = 1 THEN DigitsOf(Head(items))
    ELSE DigitsOf(Head(items)) \o <<",", " ">> \o JoinInts(Tail(items))

\* json.dumps(value, sort_keys=True) of a list, a tuple or the dict
JsonDumps(value) ==
    IF value.type = "dict"
    THEN <<"{", "\"", "k", "\"", ":", " ">> \o DigitsOf(value.items[1]) \o <<"}">>
    ELSE <<"[">> \o JoinInts(value.items) \o <<"]">>

\* The characters the values of the model are written with, and the two
\* hexadecimal digits of each (its utf-8 byte).
HexTable ==
    {<<"\n", "0", "a">>, <<" ", "2", "0">>, <<"\"", "2", "2">>, <<",", "2", "c">>,
     <<".", "2", "e">>, <<"/", "2", "f">>, <<"0", "3", "0">>, <<"1", "3", "1">>,
     <<"2", "3", "2">>, <<"3", "3", "3">>, <<"4", "3", "4">>, <<"5", "3", "5">>,
     <<"6", "3", "6">>, <<"7", "3", "7">>, <<"8", "3", "8">>, <<"9", "3", "9">>,
     <<":", "3", "a">>, <<"F", "4", "6">>, <<"N", "4", "e">>, <<"T", "5", "4">>,
     <<"[", "5", "b">>, <<"]", "5", "d">>, <<"a", "6", "1">>, <<"b", "6", "2">>,
     <<"e", "6", "5">>, <<"k", "6", "b">>, <<"l", "6", "c">>, <<"n", "6", "e">>,
     <<"o", "6", "f">>, <<"r", "7", "2">>, <<"s", "7", "3">>, <<"u", "7", "5">>,
     <<"{", "7", "b">>, <<"}", "7", "d">>}

RECURSIVE Hex(_)
\* bytes(text, encoding='utf-8').hex()
Hex(chars) ==
    IF chars = <<>> THEN <<>>
    ELSE LET code == CHOOSE t \in HexTable : t[1] = Head(chars)
         IN <<code[2], code[3]>> \o Hex(Tail(chars))

RECURSIVE FromHex(_)
\* bytearray.fromhex(text).decode('utf-8'); ValueError for an odd number of
\* digits or a digit pair that is no byte of the table
FromHex(chars) ==
    IF chars = <<>> THEN [exc |-> None, chars |-> <<>>]
    ELSE IF Len(chars) = 1
            \/ ~\E t \in HexTable : t[2] = chars[1] /\ t[3] = chars[2]
    THEN [exc |-> "ValueError", chars |-> <<>>]
    ELSE LET rest == {FromHex(SubSeq(chars, 3, Len(chars)))}
             ch == (CHOOSE t \in HexTable : t[2] = chars[1] /\ t[3] = chars[2])[1]
         IN CHOOSE r \in {[exc |-> x.exc,
                           chars |-> IF x.exc = None THEN <<ch>> \o x.chars ELSE <<>>] :
                              x \in rest} : TRUE

\* _encode(val) of encode_package: the hexadecimal digits of str(val)
_encode(chars) == Hex(chars)

\* One round of the loop of encode_package: the line of one entry, by the
\* first isinstance test the value passes.
EncodeEntry(key, value) ==
    LET _value == IF value.type \in {"dict", "list", "tuple"} THEN JsonDumps(value)
                  ELSE Text(value)
    IN TypeName(value.type) \o <<"/">> \o key \o <<"/">> \o _encode(_value) \o <<"\n">>

RECURSIVE simple_encode_package(_)
\* marshallers.simple.encode_package: the lines of data.items(), in order
simple_encode_package(data) ==
    IF data = <<>> THEN <<>>
    ELSE EncodeEntry(Head(data).key, Head(data).value)
            \o simple_encode_package(Tail(data))

\* text.split(sep) and, without the empty last piece, text.splitlines()
RECURSIVE SplitFrom(_, _, _, _)
SplitFrom(chars, sep, piece, pieces) ==
    IF chars = <<>> THEN Append(pieces, piece)
    ELSE IF Head(chars) = sep
    THEN SplitFrom(Tail(chars), sep, <<>>, Append(pieces, piece))
    ELSE SplitFrom(Tail(chars), sep, Append(piece, Head(chars)), pieces)

Split(chars, sep) == SplitFrom(chars, sep, <<>>, <<>>)

\* chars.strip(): without leading blanks
RECURSIVE LStrip(_)
LStrip(chars) ==
    IF chars # <<>> /\ Head(chars) = " " THEN LStrip(Tail(chars)) ELSE chars

RECURSIVE ParseInts(_)
\* the ints of the pieces of a JSON array
ParseInts(pieces) ==
    IF pieces = <<>> THEN [exc |-> None, items |-> <<>>]
    ELSE LET first == ParseInt(LStrip(Head(pieces)), 0)
             rest == ParseInts(Tail(pieces))
         IN IF LStrip(Head(pieces)) = <<>> \/ first.exc # None \/ rest.exc # None
            THEN [exc |-> "ValueError", items |-> <<>>]
            ELSE [exc |-> None, items |-> <<first.v>> \o rest.items]

\* json.loads(text) of an array of ints
JsonLoadsList(chars) ==
    IF Len(chars) < 2 \/ Head(chars) # "[" \/ chars[Len(chars)] # "]"
    THEN [exc |-> "ValueError", items |-> <<>>]
    ELSE IF Len(chars) = 2 THEN [exc |-> None, items |-> <<>>]
    ELSE ParseInts(Split(SubSeq(chars, 2, Len(chars) - 1), ","))

\* json.loads(text) of the dict {"k": n}
JsonLoadsDict(chars) ==
    IF Len(chars) < 8 \/ SubSeq(chars, 1, 6) # <<"{", "\"", "k", "\"", ":", " ">>
       \/ chars[Len(chars)] # "}"
    THEN [exc |-> "ValueError", items |-> <<>>]
    ELSE ParseInts(<<SubSeq(chars, 7, Len(chars) - 1)>>)

\* float(text) in tenths, for a text with one decimal
ParseFloat(chars) ==
    LET parts == Split(chars, ".")
    IN IF Len(parts) # 2 \/ parts[1] = <<>> \/ Len(parts[2]) # 1
          \/ ParseInt(parts[1], 0).exc # None \/ ParseInt(parts[2], 0).exc # None
       THEN [exc |-> "ValueError", v |-> 0]
       ELSE [exc |-> None, v |-> 10 * ParseInt(parts[1], 0).v + ParseInt(parts[2], 0).v]

\* The value decode_package makes of the text of one line, by value_type
DecodeValue(value_type, chars) ==
    IF value_type = TypeName("dict")
    THEN LET d == JsonLoadsDict(chars)
         IN [exc |-> d.exc, value |-> IF d.exc = None THEN PyDict(d.items[1]) ELSE PyNone]
    ELSE IF value_type = TypeName("None") THEN [exc |-> None, value |-> PyNone]
    ELSE IF value_type = TypeName("str") THEN [exc |-> None, value |-> PyStr(chars)]
    ELSE IF value_type = TypeName("list")
    THEN LET l == JsonLoadsList(chars)
         IN [exc |-> l.exc, value |-> PyList(l.items)]
    ELSE IF value_type = TypeName("tuple")
    THEN LET l == JsonLoadsList(chars)
         IN [exc |-> l.exc, value |-> PyTuple(l.items)]
    ELSE IF value_type = TypeName("bool")
    THEN [exc |-> None, value |-> PyBool(chars # <<>>)]
    ELSE IF value_type = TypeName("int")
    THEN [exc |-> IF chars = <<>> THEN "ValueError" ELSE ParseInt(chars, 0).exc,
          value |-> PyInt(ParseInt(chars, 0).v)]
    ELSE IF value_type = TypeName("float")
    THEN [exc |-> ParseFloat(chars).exc, value |-> PyFloat(ParseFloat(chars).v)]
    ELSE [exc |-> "NameError", value |-> PyNone]

\* One round of the loop of decode_package: value_type, key, value =
\* line.split('/'), the value from its hexadecimal digits.
DecodeLine(line) ==
    LET parts == Split(line, "/")
    IN IF Len(parts) # 3 THEN [exc |-> "ValueError", key |-> <<>>, value |-> PyNone]
       ELSE IF FromHex(parts[3]).exc # None
       THEN [exc |-> "ValueError", key |-> <<>>, value |-> PyNone]
       ELSE [exc |-> DecodeValue(parts[1], FromHex(parts[3]).chars).exc,
             key |-> parts[2],
             value |-> DecodeValue(parts[1], FromHex(parts[3]).chars).value]

\* result[key] = value on a dict kept as a set of <<key, value>> pairs
DictSet(d, key, value) == {p \in d : p[1] # key} \cup {<<key, value>>}

RECURSIVE DecodeLines(_, _)
\* the loop of decode_package over data.splitlines(); empty lines are skipped
DecodeLines(lines, result) ==
    IF lines = <<>> THEN [exc |-> None, data |-> result]
    ELSE IF Head(lines) = <<>> THEN DecodeLines(Tail(lines), result)
    ELSE IF DecodeLine(Head(lines)).exc # None
    THEN [exc |-> DecodeLine(Head(lines)).exc, data |-> {}]
    ELSE DecodeLines(Tail(lines),
                     DictSet(result, DecodeLine(Head(lines)).key,
                             DecodeLine(Head(lines)).value))

\* marshallers.simple.decode_package
simple_decode_package(text) == DecodeLines(Split(text, "\n"), {})

\* The dict a payload is: its entries as a set of <<key, value>> pairs
RECURSIVE AsDict(_)
AsDict(data) ==
    IF data = <<>> THEN {}
    ELSE DictSet(AsDict(SubSeq(data, 1, Len(data) - 1)),
                 data[Len(data)].key, data[Len(data)].value)

\* The keys and values of the payloads of the model
EntryKeys == {<<<<"a">>, <<"b">>, <<"k">>, <<"n">>>>[i] : i \in 1..MaxEntries}

EntryValues ==
    {PyStr(<<>>), PyStr(<<"a">>), PyStr(<<"a", "/", "b">>), PyStr(<<"a", "\n", "b">>),
     PyInt(0), PyInt(12), PyFloat(2), PyFloat(15), PyBool(TRUE), PyBool(FALSE),
     PyNone, PyList(<<>>), PyList(<<1, 20>>), PyTuple(<<3>>), PyDict(7)}

Entries == {[key |-> k, value |-> v] : k \in EntryKeys, v \in EntryValues}

\* dicts of up to MaxEntries entries, in insertion order
Payloads ==
    UNION {{d \in [1..n -> Entries] : \A i, j \in 1..n : i # j => d[i].key # d[j].key} :
              n \in 0..MaxEntries}

\* marshaller._encode_package(transaction_id, package)
Encode ==
    /\ stage = "payload"
    /\ wire' = simple_encode_package(payload)
    /\ stage' = "encoded"
    /\ UNCHANGED <<setup_vars, pool, tx_limit, adapter_vars, profile_vars,
                   proxy_vars, other_vars, queue_vars, run_vars, payload, decoded>>

\* marshaller._decode_package(transaction_id, header_data, payload)
Decode ==
    /\ stage = "encoded"
    /\ decoded' = simple_decode_package(wire)
    /\ stage' = "decoded"
    /\ UNCHANGED <<setup_vars, pool, tx_limit, adapter_vars, profile_vars,
                   proxy_vars, other_vars, queue_vars, run_vars, payload, wire>>

\* ------------------------------------------------------------ queue threads
\* What the threads of the queue leave alone
rest_vars == <<setup_vars, pool, tx_limit, wire_vars, adapter_vars, profile_vars,
               proxy_vars, threaded_digest, next_txid, session, received, worker,
               cur, outcome, invoked, faults, dropped, client_vars>>
still_vars == <<rest_vars, other_vars>>
core_vars == <<rest_vars, queue_vars, queue, busy, dispatched, respond_log>>
queued_rest == <<rest_vars, logging_vars, framing_vars, end_vars, require_vars>>
logging_rest == <<core_vars, queued_vars, framing_vars, end_vars, require_vars>>
framing_rest == <<core_vars, queued_vars, logging_vars, end_vars, require_vars>>
end_rest == <<core_vars, queued_vars, logging_vars, framing_vars, require_vars>>
require_rest == <<core_vars, queued_vars, logging_vars, framing_vars, end_vars>>

\* server.start_queue() called by the program: another thread
StartQueue ==
    /\ \E w \in Workers : tickers[w].pc = "none"
    /\ tickers' = NewTicker(tickers)
    /\ queue_started' = TRUE
    /\ UNCHANGED <<still_vars, queue, busy, dispatched, respond_log, queue_threads>>

\* tick_queue, the two tests: an empty queue or a set busy flag send the
\* thread to sleep and round the loop again
TickCheck(w) ==
    /\ tickers[w].pc = "top"
    /\ queue # <<>> /\ ~busy
    /\ tickers' = [tickers EXCEPT ![w].pc = "checked"]
    /\ UNCHANGED <<still_vars, queue_started, queue, busy, dispatched, respond_log,
                   queue_threads>>

\* self.busy = True
TickClaim(w) ==
    /\ tickers[w].pc = "checked"
    /\ busy' = TRUE
    /\ tickers' = [tickers EXCEPT ![w].pc = "claimed"]
    /\ UNCHANGED <<still_vars, queue_started, queue, dispatched, respond_log,
                   queue_threads>>

\* How tick_queue hands the item on: to a thread of its own or to __respond
\* in the thread of the queue
Dispatch_inline(threaded) == "inline"

Dispatch(threaded) == IF threaded THEN "thread" ELSE "inline"

\* self.queue.pop(0), the server_post_remove_from_queue hooks, and with
\* threaded_digest the start of the thread. pop on an empty list raises
\* IndexError; an exception leaves tick_queue and the loop of the thread.
TickPop(w) ==
    /\ tickers[w].pc = "claimed"
    /\ IF queue = <<>>
       THEN /\ tickers' = [tickers EXCEPT ![w].pc = "dead"]
            /\ UNCHANGED <<queue, dispatched, queue_threads>>
       ELSE /\ queue' = pop(queue).rest
            /\ dispatched' = Append(dispatched, pop(queue).item)
            /\ IF CallHook(adapters, "server_post_remove_from_queue") # None
               THEN /\ tickers' = [tickers EXCEPT ![w].pc = "dead"]
                    /\ UNCHANGED queue_threads
               ELSE IF Dispatch(threaded_digest) = "thread"
               THEN /\ tickers' = [tickers EXCEPT ![w].pc = "release"]
                    /\ queue_threads' = Append(queue_threads,
                              [item |-> pop(queue).item, pc |-> "running"])
               ELSE /\ tickers' = [tickers EXCEPT ![w] =
                              [pc |-> "responding", item |-> pop(queue).item]]
                    /\ UNCHANGED queue_threads
    /\ UNCHANGED <<still_vars, queue_started, busy, respond_log>>

\* ServerBase.__respond for transaction tx, from its last step back to its
\* first: _respond, and on an exception the fallback Response and a second
\* handler.respond. Result: the handler.respond calls made, and the
\* exception that leaves __respond.
FallbackSent(tx, log1, fb, r2) ==
    [log |-> Append(log1, LogEntry(tx, fb.resp, TRUE, r2)), raised |-> r2.exc]

FallbackWith(tx, log1, fb) ==
    IF fb.exc # None THEN [log |-> log1, raised |-> fb.exc]
    ELSE FallbackSent(tx, log1, fb, HandlerRespondOp(handler_adapters, fb.resp))

Fallback(tx, log1, exc) == FallbackWith(tx, log1, ErrorResponse(error_registry, exc))

RespondFirst(tx, prep, r) ==
    IF r.exc = None
    THEN [log |-> <<LogEntry(tx, prep.resp, FALSE, r)>>, raised |-> None]
    ELSE Fallback(tx, <<LogEntry(tx, prep.resp, FALSE, r)>>, r.exc)

RespondFrom(tx, prep) ==
    IF prep.exc = None
    THEN RespondFirst(tx, prep, HandlerRespondOp(handler_adapters, prep.resp))
    ELSE Fallback(tx, <<>>, prep.exc)

Respond(tx) ==
    RespondFrom(tx, RespondPrepare(adapters, commands, error_registry, tx.q))

\* What __respond leaves behind in the thread of the queue: the respond
\* calls, and the end of the thread if an exception left __respond
TickResponded(w, res) ==
    /\ respond_log' = respond_log \o res.log
    /\ tickers' = [tickers EXCEPT ![w] =
                      [pc |-> IF res.raised # None THEN "dead" ELSE "release",
                       item |-> NoTx]]

\* self.__respond(*_args) in the thread of the queue
TickRespond(w) ==
    /\ tickers[w].pc = "responding"
    /\ TickResponded(w, Respond(tickers[w].item))
    /\ UNCHANGED <<still_vars, queue_started, queue, busy, dispatched,
                   queue_threads>>

\* self.busy = False, and round the loop again
TickRelease(w) ==
    /\ tickers[w].pc = "release"
    /\ busy' = FALSE
    /\ tickers' = [tickers EXCEPT ![w].pc = "top"]
    /\ UNCHANGED <<still_vars, queue_started, queue, dispatched, respond_log,
                   queue_threads>>

\* __respond in a thread of a threaded digest
ThreadRespond(i) ==
    /\ i \in 1..Len(queue_threads)
    /\ queue_threads[i].pc = "running"
    /\ respond_log' = respond_log \o Respond(queue_threads[i].item).log
    /\ queue_threads' = [queue_threads EXCEPT ![i].pc = "done"]
    /\ UNCHANGED <<still_vars, queue_started, tickers, queue, busy, dispatched>>

\* ---------------------------------------------------------- queued commands
\* The queue item of QueuedServerCommand.queue: the command as handler, None
\* as connection, the new transaction id
QueuedItem(k) == [NoTx EXCEPT !.txid = k]

FreeCalls == {k \in QCalls : qcalls[k].pc = "none"}

\* QueuedServerCommand.queue up to and including add_to_queue, called from
\* the digest of call parent (0: from a thread of the program)
Enqueued(parent, nests) ==
    LET k == CHOOSE k \in FreeCalls : \A j \in FreeCalls : k <= j
    IN /\ queue' = Append(queue, QueuedItem(k))
       /\ qcalls' = [qcalls EXCEPT ![k] =
                        [pc |-> "enqueued", parent |-> parent, nests |-> nests]]

\* The calls whose digest has a call of a queued command still to make
Nesting == {k \in QCalls : qcalls[k].nests /\ \A j \in QCalls : qcalls[j].parent # k}

\* A thread of the program calls a queued command; the callable of the
\* command may itself call a queued command
QueuedCall(nests) ==
    /\ Cardinality(FreeCalls) >= Cardinality(Nesting) + (IF nests THEN 2 ELSE 1)
    /\ Enqueued(0, nests)
    /\ UNCHANGED <<queued_rest, queue_vars, busy, dispatched, respond_log, responses>>

\* self.responses[transaction_id] = None
QueuedInit(k) ==
    /\ qcalls[k].pc = "enqueued"
    /\ responses' = [responses EXCEPT ![k] = "None"]
    /\ qcalls' = [qcalls EXCEPT ![k].pc = "polling"]
    /\ UNCHANGED <<queued_rest, queue_vars, queue, busy, dispatched, respond_log>>

\* The digest of call k goes on once the call it made has returned
Resumed(k, pc, to) ==
    IF pc.pc = "in_digest" /\ pc.item.txid = k THEN [pc EXCEPT !.pc = to] ELSE pc

\* The poll loop finds a Response in the slot: the entry is deleted and the
\* call returns, to the digest that made it if one did
QueuedReturn(k) ==
    /\ qcalls[k].pc = "polling"
    /\ responses[k] = "Response"
    /\ responses' = [responses EXCEPT ![k] = "absent"]
    /\ qcalls' = [j \in QCalls |->
                     IF j = k THEN [qcalls[j] EXCEPT !.pc = "returned"]
                     ELSE IF j = qcalls[k].parent
                     THEN [qcalls[j] EXCEPT !.nests = FALSE]
                     ELSE qcalls[j]]
    /\ tickers' = [w \in Workers |->
                      Resumed(qcalls[k].parent, tickers[w], "responding")]
    /\ queue_threads' = [i \in 1..Len(queue_threads) |->
                            Resumed(qcalls[k].parent, queue_threads[i], "running")]
    /\ UNCHANGED <<queued_rest, threaded_digest, queue_started, queue, busy,
                   dispatched, respond_log>>

\* _respond for the item of call k: the digest runs the callable, which calls
\* a queued command first if it is one that does; then handler.respond, here
\* QueuedServerCommand.respond, fills the slot. Result: where the thread
\* that runs it is afterwards.
QueuedRespond(k, done) ==
    IF qcalls[k].nests
    THEN /\ Enqueued(k, FALSE)
         /\ UNCHANGED responses
    ELSE /\ responses' = [responses EXCEPT ![k] = "Response"]
         /\ UNCHANGED <<queue, qcalls>>

AfterRespond(k, done) == IF qcalls[k].nests THEN "in_digest" ELSE done

\* self.__respond(*_args) for a queued item in the thread of the queue
QueuedTickRespond(w) ==
    /\ tickers[w].pc = "responding"
    /\ tickers[w].item.conn = 0
    /\ QueuedRespond(tickers[w].item.txid, "release")
    /\ tickers' = [tickers EXCEPT ![w].pc =
                      AfterRespond(tickers[w].item.txid, "release")]
    /\ UNCHANGED <<queued_rest, threaded_digest, queue_started, queue_threads, busy,
                   dispatched, respond_log>>

\* __respond for a queued item in a thread of a threaded digest
QueuedThreadRespond(i) ==
    /\ i \in 1..Len(queue_threads)
    /\ queue_threads[i].pc = "running"
    /\ queue_threads[i].item.conn = 0
    /\ QueuedRespond(queue_threads[i].item.txid, "done")
    /\ queue_threads' = [queue_threads EXCEPT ![i].pc =
                            AfterRespond(queue_threads[i].item.txid, "done")]
    /\ UNCHANGED <<queued_rest, threaded_digest, queue_started, tickers, busy,
                   dispatched, respond_log>>

\* ------------------------------------------------------- digest log records
\* ServerCommandDigestLoggingHandler.emit for a WARNING or an ERROR record
\* logged by thread src: the handler hangs on the root logger and keeps the
\* record of any thread while started is set
emit(src) == IF started THEN Append(captured, src) ELSE captured

InDigest(t) == lpc[t] \in {"digesting", "formed", "injected"}

\* _respond up to the digest: self.command_handler.start(). Without
\* threaded_digest the thread of the queue runs one _respond at a time.
DigestStart(t) ==
    /\ lpc[t] = "queued"
    /\ threaded_digest \/ \A u \in LogTx : ~InDigest(u)
    /\ started' = TRUE
    /\ lpc' = [lpc EXCEPT ![t] = "digesting"]
    /\ UNCHANGED <<logging_rest, captured, emitted, foreign, attached>>

\* The digest of t logs a WARNING or an ERROR record
DigestLogs(t) ==
    /\ lpc[t] = "digesting"
    /\ emitted[t] < MaxOwnRecords
    /\ captured' = emit(t)
    /\ emitted' = [emitted EXCEPT ![t] = @ + 1]
    /\ UNCHANGED <<logging_rest, started, lpc, foreign, attached>>

\* Another thread logs one: 'Beginning revc_forever on ...' of a session
\* thread, 'Removing client ...', 'Client connection failed!' of the accept loop
OtherLogs ==
    /\ foreign < MaxForeignRecords
    /\ captured' = emit(0)
    /\ foreign' = foreign + 1
    /\ UNCHANGED <<logging_rest, started, lpc, emitted, attached>>

\* self.digest(...) returns: the Response is formed
DigestEnd(t) ==
    /\ lpc[t] = "digesting"
    /\ lpc' = [lpc EXCEPT ![t] = "formed"]
    /\ UNCHANGED <<logging_rest, started, captured, emitted, foreign,
                   attached>>

\* response.errors += command_handler.errors; response.warnings += ...warnings
Inject(t) ==
    /\ lpc[t] = "formed"
    /\ attached' = [attached EXCEPT ![t] = captured]
    /\ lpc' = [lpc EXCEPT ![t] = "injected"]
    /\ UNCHANGED <<logging_rest, started, captured, emitted, foreign>>

\* self.command_handler.stop(): started = False and flush()
Stop(t) ==
    /\ lpc[t] = "injected"
    /\ started' = FALSE
    /\ captured' = <<>>
    /\ lpc' = [lpc EXCEPT ![t] = "done"]
    /\ UNCHANGED <<logging_rest, emitted, foreign, attached>>

\* ------------------------------------------------------------ packet framing
\* The bytes of a packet, a line of the simple header or body format at a
\* time: the Content-Length line and the Connection line of the header, the
\* two halves of HEADER_DELIMITER, the lines of the body. n is the value of
\* the Content-Length line, counted in body lines, and the index of a body
\* line.
Token(p, k, n) == [p |-> p, k |-> k, n |-> n]

Header(p, len) ==
    <<Token(p, "length", len), Token(p, "connection", 0), Token(p, "rn", 1),
      Token(p, "rn", 2)>>

Body(p, len) == [i \in 1..len |-> Token(p, "body", i)]

\* _compile_buffer: header, delimiter, content
Packet(p, len) == Header(p, len) \o Body(p, len)

\* The lines of a buffer that are not blank
Lines(buffer) ==
    {i \in 1..Len(buffer) : buffer[i].k # "rn"}

\* simple decode_package: a dict entry per line that is not blank; an empty
\* dict is what "if not header_data" and "if not data" take for nothing
Truthy(buffer) == Lines(buffer) # {}

\* int(header_data.get('Content-Length', '0')): the last Content-Length
\* line of the buffer wins
ContentLength(buffer) ==
    LET at == {i \in 1..Len(buffer) : buffer[i].k = "length"}
    IN IF at = {} THEN 0
       ELSE buffer[CHOOSE i \in at : \A j \in at : j <= i].n

\* header_buffer[-4:] == self.HEADER_DELIMITER
Delimited(buffer) ==
    /\ Len(buffer) >= 2
    /\ buffer[Len(buffer) - 1].k = "rn" /\ buffer[Len(buffer) - 1].n = 1
    /\ buffer[Len(buffer)].k = "rn" /\ buffer[Len(buffer)].n = 2

\* The client writes the next bytes of its packets
ClientSends ==
    /\ to_send # <<>>
    /\ stream' = Append(stream, Head(to_send))
    /\ to_send' = Tail(to_send)
    /\ UNCHANGED <<framing_rest, reader, delivered, recv_errors>>

\* _recv once the loop of _recv_header is left with header_buffer: nothing
\* read gives (b'', {}) and an empty package; a header that decodes to
\* nothing raises; Content-Length 0 returns the header with an empty dict;
\* otherwise _recv_content is next.
HeaderDone(buffer) ==
    IF buffer = <<>>
    THEN /\ reader' = AtHeader
         /\ UNCHANGED <<delivered, recv_errors>>
    ELSE IF ~Truthy(buffer)
    THEN /\ reader' = AtHeader
         /\ recv_errors' = recv_errors + 1
         /\ UNCHANGED delivered
    ELSE IF ContentLength(buffer) = 0
    THEN /\ reader' = AtHeader
         /\ delivered' = Append(delivered, [header |-> buffer, body |-> <<>>])
         /\ UNCHANGED recv_errors
    ELSE /\ reader' = [pc |-> "content", header |-> buffer,
                       need |-> ContentLength(buffer), content |-> <<>>]
         /\ UNCHANGED <<delivered, recv_errors>>

\* _recv_header: connection.recv(1) returns data
HeaderByte ==
    /\ reader.pc = "header"
    /\ stream # <<>>
    /\ stream' = Tail(stream)
    /\ IF Delimited(Append(reader.header, Head(stream)))
       THEN HeaderDone(Append(reader.header, Head(stream)))
       ELSE /\ reader' = [reader EXCEPT !.header = Append(@, Head(stream))]
            /\ UNCHANGED <<delivered, recv_errors>>
    /\ UNCHANGED <<framing_rest, to_send>>

\* _recv_header: connection.recv(1) times out (CONNECTION_TIMEOUT); the
\* except clause breaks out of the loop with what was read so far
HeaderTimeout ==
    /\ reader.pc = "header"
    /\ stream = <<>>
    /\ HeaderDone(reader.header)
    /\ UNCHANGED <<framing_rest, to_send, stream>>

\* _recv once the loop of _recv_content is left: the content is decoded, and
\* content that decodes to nothing raises ValueError
ContentDone(header, content) ==
    /\ reader' = AtHeader
    /\ IF Truthy(content)
       THEN /\ delivered' = Append(delivered, [header |-> header, body |-> content])
            /\ UNCHANGED recv_errors
       ELSE /\ recv_errors' = recv_errors + 1
            /\ UNCHANGED delivered

\* _recv_content: connection.recv(min(BUFFER_SIZE, _remaining)) returns k bytes
ContentRead(k) ==
    /\ reader.pc = "content"
    /\ k >= 1 /\ k <= Len(stream) /\ k <= reader.need - Len(reader.content)
    /\ stream' = SubSeq(stream, k + 1, Len(stream))
    /\ IF Len(reader.content) + k = reader.need
       THEN ContentDone(reader.header, reader.content \o SubSeq(stream, 1, k))
       ELSE /\ reader' = [reader EXCEPT !.content = @ \o SubSeq(stream, 1, k)]
            /\ UNCHANGED <<delivered, recv_errors>>
    /\ UNCHANGED <<framing_rest, to_send>>

\* _recv_content: the recv times out; nothing catches socket.timeout before
\* recv_forever, which logs it and calls _recv again
ContentTimeout ==
    /\ reader.pc = "content"
    /\ stream = <<>>
    /\ reader' = AtHeader
    /\ recv_errors' = recv_errors + 1
    /\ UNCHANGED <<framing_rest, to_send, stream, delivered>>

\* ----------------------------------------------------------------- shutdown
EndClients == 1..MaxEndClients

\* self.clients.pop(self.clients.index(client))
Without(list, i) == SubSeq(list, 1, i - 1) \o SubSeq(list, i + 1, Len(list))

IndexOf(list, c) == CHOOSE i \in 1..Len(list) : list[i] = c

\* "for client in self.clients: self.remove_client(client)": the iterator
\* of the list keeps a position, i-th item next, and ends when the position
\* is past the end of the list as it is then
RECURSIVE RemoveEach(_, _)
RemoveEach(list, i) ==
    IF i > Len(list) THEN list
    ELSE RemoveEach(Without(list, IndexOf(list, list[i])), i + 1)

\* add_client from the accept loop of start_socket, which runs while the
\* server is not stopped
AddClient(c) ==
    /\ ~stopped
    /\ \A i \in 1..Len(client_list) : client_list[i] # c
    /\ client_list' = Append(client_list, c)
    /\ UNCHANGED <<end_rest, stopped, listening, last_end>>

\* The session of a client ends on its own: remove_client from its thread
SessionEnds(c) ==
    /\ \E i \in 1..Len(client_list) : client_list[i] = c
    /\ client_list' = Without(client_list, IndexOf(client_list, c))
    /\ UNCHANGED <<end_rest, stopped, listening, last_end>>

\* ServerBase.end()
End ==
    /\ IF stopped
       THEN /\ last_end' = [result |-> "Exception",
                            before |-> ServerState(stopped, client_list, listening),
                            after |-> ServerState(stopped, client_list, listening)]
            /\ UNCHANGED <<stopped, client_list, listening>>
       ELSE /\ stopped' = TRUE
            /\ client_list' = RemoveEach(client_list, 1)
            /\ listening' = FALSE
            /\ last_end' = [result |-> "returned",
                            before |-> ServerState(stopped, client_list, listening),
                            after |-> ServerState(TRUE, RemoveEach(client_list, 1),
                                                  FALSE)]
    /\ UNCHANGED end_rest

\* ------------------------------------------- required interfaces, adapters
\* The two loops of register_interface and of register_adapter for key n:
\* its required interfaces first, then its required adapters
RequiredList(n) ==
    (IF "i1" \in required[n] THEN <<"i1">> ELSE <<>>)
        \o (IF "a1" \in required[n] THEN <<"a1">> ELSE <<>>)
        \o (IF "a2" \in required[n] THEN <<"a2">> ELSE <<>>)

\* register_interface stores the interface before its loops;
\* register_adapter stores the adapter after them
StoredOnEntry(n) == n \in InterfaceKeys

\* A call of register_interface_by_key(n) or register_adapter_by_key(n) with
\* stack the calls in progress: a new object, stored at once if it is an
\* interface, and the call on top of the stack. The interpreter raises
\* RecursionError when the calls nest too deep.
Called(n, stack) ==
    IF Len(stack) >= RecursionLimit
    THEN /\ req_outcome' = "RecursionError"
         /\ req_stack' = <<>>
         /\ UNCHANGED <<registered, times>>
    ELSE /\ req_stack' = Append(stack, [n |-> n, i |-> 1])
         /\ IF StoredOnEntry(n)
            THEN /\ registered' = registered \cup {n}
                 /\ times' = [times EXCEPT ![n] = @ + 1]
            ELSE UNCHANGED <<registered, times>>
         /\ UNCHANGED req_outcome

\* The program calls server.register_interface_by_key(n) or
\* server.register_adapter_by_key(n)
RegisterByKey(n) ==
    /\ req_top = None
    /\ req_top' = n
    /\ Called(n, req_stack)
    /\ UNCHANGED <<require_rest, required>>

\* One round of the loop the innermost call is in: a required key that is
\* registered is skipped, another one is registered by key
RequireNext ==
    /\ req_stack # <<>>
    /\ LET top == req_stack[Len(req_stack)]
           key == RequiredList(top.n)[top.i]
           on == [req_stack EXCEPT ![Len(req_stack)].i = top.i + 1]
       IN /\ top.i <= Len(RequiredList(top.n))
          /\ IF key \in registered
             THEN /\ req_stack' = on
                  /\ UNCHANGED <<registered, times, req_outcome>>
             ELSE Called(key, on)
    /\ UNCHANGED <<require_rest, required, req_top>>

\* The innermost call is through its loops: register_adapter stores the
\* adapter (self.adapters[key] = adapter), either of them returns
RequireReturn ==
    /\ req_stack # <<>>
    /\ LET top == req_stack[Len(req_stack)]
       IN /\ top.i > Len(RequiredList(top.n))
          /\ IF StoredOnEntry(top.n)
             THEN UNCHANGED <<registered, times>>
             ELSE /\ registered' = registered \cup {top.n}
                  /\ times' = [times EXCEPT ![top.n] = @ + 1]
          /\ req_stack' = SubSeq(req_stack, 1, Len(req_stack) - 1)
          /\ req_outcome' = IF Len(req_stack) = 1 THEN "returned" ELSE req_outcome
    /\ UNCHANGED <<require_rest, required, req_top>>

\* ------------------------------------------------------------ client proxy
server_vars == <<setup_vars, other_vars, pool, tx_limit, wire_vars, adapter_vars, profile_vars,
                 queue_vars, run_vars>>

\* ClientProxyBase.connected: whether socket.getsockname() returns
connected == psock = "connected" \/ platform = "posix"

\* connect() up to its loop: _initialize(), retries = 1
ProxyConnect ==
    /\ ppc = "new"
    /\ ppc' = "connecting"
    /\ retries' = 1
    /\ UNCHANGED <<server_vars, clock, platform, psock, attempts, calls, caller,
                   threads, box, pending, inflight, arrival, results, cached>>

\* One round of the loop of connect(): socket.connect succeeds (ok) or
\* raises socket.error, which is logged.
SocketConnect(ok) ==
    /\ ppc = "connecting"
    /\ ~connected /\ retries <= connection_retries
    /\ psock' = IF ok THEN "connected" ELSE psock
    /\ attempts' = attempts + 1
    /\ retries' = retries + 1
    /\ UNCHANGED <<server_vars, clock, platform, ppc, calls, caller, threads, box,
                   pending, inflight, arrival, results, cached>>

\* send(data, timeout) up to its loop: start = time.time(), and the thread,
\* which begins with handler.send on the socket. On a socket that is not
\* connected sendall raises socket.error and the thread ends.
StartCall(timeout) ==
    /\ calls' = calls + 1
    /\ caller' = [pc |-> "loop", k |-> calls + 1, start |-> clock,
                  timeout |-> timeout, slept |-> 0]
    /\ IF psock = "connected"
       THEN /\ threads' = [threads EXCEPT ![calls + 1] = "receiving"]
            /\ pending' = Append(pending, calls + 1)
       ELSE /\ threads' = [threads EXCEPT ![calls + 1] = "dead"]
            /\ UNCHANGED pending

\* connect() after its loop: socket.error if not connected, otherwise
\* timed_question('list_commands', timeout=10.0)
ConnectCheck ==
    /\ ppc = "connecting"
    /\ ~(~connected /\ retries <= connection_retries)
    /\ IF ~connected
       THEN /\ ppc' = "refused"
            /\ UNCHANGED <<calls, caller, threads, pending>>
       ELSE /\ ppc' = "listing"
            /\ StartCall(ListCommandsTimeout)
    /\ UNCHANGED <<server_vars, clock, platform, psock, retries, attempts, box,
                   inflight, arrival, results, cached>>

\* timed_question(command, timeout) of a proxy whose connect() returned
TimedQuestion(timeout) ==
    /\ ppc = "ready" /\ caller.pc = "idle"
    /\ calls < MaxCalls
    /\ StartCall(timeout)
    /\ UNCHANGED <<server_vars, clock, platform, psock, ppc, retries, attempts,
                   box, inflight, arrival, results, cached>>

\* The server answers its oldest question, with a traceback (tb) or without.
ServerReply(tb) ==
    /\ pending # <<>>
    /\ inflight' = Append(inflight, [q |-> Head(pending), tb |-> tb])
    /\ pending' = Tail(pending)
    /\ UNCHANGED <<server_vars, clock, platform, psock, ppc, retries, attempts,
                   calls, caller, threads, box, arrival, results, cached>>

\* _send of call k, second line: handler.receive_response(self.socket)
\* returns the next response on the socket, which is appended to the list.
ThreadReceive(k) ==
    /\ threads[k] = "receiving"
    /\ inflight # <<>>
    /\ box' = [box EXCEPT ![k] = Append(@, Head(inflight))]
    /\ arrival' = [arrival EXCEPT ![Head(inflight).q] = clock]
    /\ inflight' = Tail(inflight)
    /\ threads' = [threads EXCEPT ![k] = "done"]
    /\ UNCHANGED <<server_vars, clock, platform, psock, ppc, retries, attempts,
                   calls, caller, pending, results, cached>>

\* Time passes.
Tick ==
    /\ clock < MaxClock
    /\ clock' = clock + 1
    /\ UNCHANGED <<server_vars, platform, psock, ppc, retries, attempts, calls,
                   caller, threads, box, pending, inflight, arrival, results,
                   cached>>

\* One round of "while (time.time() - start) < timeout": break on a
\* response, otherwise time.sleep(0.1).
Poll ==
    /\ caller.pc = "loop"
    /\ caller' = IF clock - caller.start < caller.timeout /\ box[caller.k] = <<>>
                 THEN [caller EXCEPT !.pc = "sleep", !.slept = clock]
                 ELSE [caller EXCEPT !.pc = "after"]
    /\ UNCHANGED <<server_vars, clock, platform, psock, ppc, retries, attempts,
                   calls, threads, box, pending, inflight, arrival, results,
                   cached>>

\* time.sleep(0.1) returns.
Wake ==
    /\ caller.pc = "sleep"
    /\ clock >= caller.slept + SleepTicks
    /\ caller' = [caller EXCEPT !.pc = "loop"]
    /\ UNCHANGED <<server_vars, clock, platform, psock, ppc, retries, attempts,
                   calls, threads, box, pending, inflight, arrival, results,
                   cached>>

\* How a timed question ends: ValueError without a response, the error of
\* the traceback the response carries, or the response.
Ending(call, response, now) ==
    [kind |-> IF response = <<>> THEN "timeout"
              ELSE IF response[1].tb THEN "raised" ELSE "returned",
     q |-> IF response = <<>> THEN 0 ELSE response[1].q,
     start |-> call.start, timeout |-> call.timeout, at |-> now]

\* send(data, timeout) after its loop and the rest of timed_question; for
\* list_commands the rest of connect() as well, which caches the commands of
\* the response.
Finish ==
    /\ caller.pc = "after"
    /\ LET end == Ending(caller, box[caller.k], clock)
       IN /\ results' = [results EXCEPT ![caller.k] = end]
          /\ ppc' = IF ppc # "listing" THEN ppc
                    ELSE IF end.kind = "returned" THEN "ready" ELSE "failed"
          /\ cached' = IF ppc = "listing" /\ end.kind = "returned" THEN end.q
                       ELSE cached
    /\ caller' = [caller EXCEPT !.pc = "idle"]
    /\ UNCHANGED <<server_vars, clock, platform, psock, retries, attempts, calls,
                   threads, box, pending, inflight, arrival>>

\* question(command) of a proxy whose connect() returned: send(data) without
\* a timeout, which begins with handler.send on the socket
Question ==
    /\ ppc = "ready" /\ caller.pc = "idle"
    /\ psock = "connected"
    /\ calls < MaxCalls
    /\ calls' = calls + 1
    /\ caller' = [pc |-> "receiving", k |-> calls + 1, start |-> clock,
                  timeout |-> 0, slept |-> 0]
    /\ pending' = Append(pending, calls + 1)
    /\ UNCHANGED <<server_vars, clock, platform, psock, ppc, retries, attempts,
                   threads, box, inflight, arrival, results, cached>>

\* The server closes the connection: what it has written can still be read,
\* then recv returns b''. What it has not answered it never answers.
ServerCloses ==
    /\ ppc = "ready"
    /\ psock = "connected"
    /\ psock' = "eof"
    /\ pending' = <<>>
    /\ UNCHANGED <<server_vars, clock, platform, ppc, retries, attempts, calls,
                   caller, threads, box, inflight, arrival, results, cached>>

\* The connection fails: recv raises socket.error from now on
ConnectionFails ==
    /\ ppc = "ready"
    /\ psock = "connected"
    /\ psock' = "reset"
    /\ pending' = <<>>
    /\ inflight' = <<>>
    /\ UNCHANGED <<server_vars, clock, platform, ppc, retries, attempts, calls,
                   caller, threads, box, arrival, results, cached>>

\* One round of "while True" in receive_response, in the thread of the
\* caller: _recv returns a response, which ends the call, or - recv returns
\* b'' or raises, _recv_header breaks out of its loop with nothing read -
\* an empty header and empty data, and the loop goes round again. On a
\* connection that is up and silent recv does not return.
ReceiveRound ==
    /\ caller.pc = "receiving"
    /\ inflight # <<>> \/ psock \in {"eof", "reset"}
    /\ IF inflight # <<>>
       THEN /\ results' = [results EXCEPT ![caller.k] =
                              Ending(caller, <<Head(inflight)>>, clock)]
            /\ arrival' = [arrival EXCEPT ![Head(inflight).q] = clock]
            /\ inflight' = Tail(inflight)
            /\ caller' = [caller EXCEPT !.pc = "idle"]
       ELSE UNCHANGED <<results, arrival, inflight, caller>>
    /\ UNCHANGED <<server_vars, clock, platform, psock, ppc, retries, attempts,
                   calls, threads, box, pending, cached>>

\* ---------------------------------------------------------- specifications
\* The bring-up of a server, from construction to start().
Next ==
    \/ \E key \in {"foo", "echo"}, f \in {"foo", "bar"} : RegisterCommand(key, f)
    \/ RegisterInterface
    \/ RegisterErrorType
    \/ \E a \in UserAdapters \cup {StockAdapter, StatusCodeAdapter} :
          RegisterAdapter(a)
    \/ RegisterHandler
    \/ Start

Spec == Init /\ [][Next]_vars

\* Two adapter objects under one key and a third under another
OrderAdapters == {Adapter("user", "UserAdapter", None),
                  Adapter("user", "UserAdapter", "handler_post_respond"),
                  Adapter("other", "UserAdapter", None)}

\* Adapters and a handler registered in any order, before and after start()
InitAdapters ==
    /\ commands = NoCommands.commands
    /\ aliases = NoCommands.aliases
    /\ last_reg = None
    /\ regs = 0
    /\ error_registry = DefaultErrorRegistry
    /\ adapters = <<>>
    /\ boot = "new"
    /\ pool = {}
    /\ tx_limit = 0
    /\ InitRun
    /\ NoPackage
    /\ NoHandler
    /\ NoProfiles
    /\ Untouched
    /\ NoProxy
    /\ DefaultQueue
    /\ reg_limit = MaxAdapterRegs

NextAdapters ==
    \/ \E a \in OrderAdapters : RegisterAdapter(a)
    \/ RegisterHandler
    \/ Start

SpecAdapters == InitAdapters /\ [][NextAdapters]_vars

\* A started server serving clients.
Serve ==
    \/ \E c \in Conns : Connect(c)
    \/ \E c \in Conns, q \in AllQuestions : Recv(c, q)
    \/ TickDequeue
    \/ Digest
    \/ HandlerRespond

\* The servers the clients meet: the interface bundle registered, the error
\* registry as imported or with Exception registered as well, no adapter or
\* one adapter, started; later register_adapter calls are still to come.
ServingAndRegistering(adapter_choices, later) ==
    /\ LET st == RegisterFuncs(NoCommands, InterfaceFuncs)
       IN /\ commands = st.commands
          /\ aliases = st.aliases
          /\ last_reg = [keys |-> BundleKeys, fn |-> "*",
                         before |-> NoCommands.commands, raised |-> st.raised]
    /\ regs = 1
    /\ error_registry \in {DefaultErrorRegistry,
                           DefaultErrorRegistry \cup {<<"exception", "Exception">>}}
    /\ adapters \in {<<>>} \cup {<<a>> : a \in adapter_choices}
    /\ boot = "started"
    /\ InitRun
    /\ NoPackage
    /\ handler = "listening"
    /\ handler_adapters = adapters
    /\ reg_log = adapters
    /\ reg_limit = Len(adapters) + later
    /\ NoProfiles
    /\ Untouched
    /\ NoProxy
    /\ DefaultQueue

Serving(adapter_choices) == ServingAndRegistering(adapter_choices, 0)

\* Every kind of question, few questions.
InitDigest ==
    /\ Serving(UserAdapters \cup {StockAdapter, StatusCodeAdapter})
    /\ pool = AllQuestions
    /\ tx_limit = MaxDigestTx

SpecDigest == InitDigest /\ [][Serve]_vars

\* Pipelined clients: several questions per connection, few kinds of question.
InitPipeline ==
    /\ Serving(UserAdapters)
    /\ pool = PipelineQuestions
    /\ tx_limit = MaxTx

SpecPipeline == InitPipeline /\ [][Serve]_vars

\* A simple marshaller handed payloads to encode and decode again
InitMarshal ==
    /\ commands = NoCommands.commands
    /\ aliases = NoCommands.aliases
    /\ last_reg = None
    /\ regs = 0
    /\ error_registry = DefaultErrorRegistry
    /\ adapters = <<>>
    /\ boot = "new"
    /\ pool = {}
    /\ tx_limit = 0
    /\ InitRun
    /\ payload \in Payloads
    /\ wire = <<>>
    /\ decoded = [exc |-> None, data |-> {}]
    /\ stage = "payload"
    /\ NoHandler
    /\ NoProfiles
    /\ Untouched
    /\ NoProxy
    /\ DefaultQueue
    /\ reg_limit = 0

Marshal == Encode \/ Decode

SpecMarshal == InitMarshal /\ [][Marshal]_vars

\* The questions of the sending runs: a value the marshaller encodes, one
\* it cannot encode, and a command that raises.
SendQuestions == {Q("echo"), Q("blob"), Q("crash")}

\* Servers whose adapter changes the package on its way out, or raises in
\* the marshaller.
InitSend ==
    /\ Serving(EditingAdapters
                 \cup {Adapter("user", "UserAdapter", "marshaller_pre_encode_package")})
    /\ pool = SendQuestions
    /\ tx_limit = MaxSessionTx

SpecSend == InitSend /\ [][Serve]_vars

\* The questions of the session runs: with and without keep-alive
SessionQuestions == {Q("echo"), MkQuestion("echo", Absent, FALSE)}

\* A started server serving clients whose reads can time out and whose
\* headers can be undecodable.
ServeSessions ==
    \/ \E c \in Conns : Connect(c)
    \/ \E c \in Conns, q \in SessionQuestions : Recv(c, q)
    \/ \E c \in Conns : ReadNothing(c)
    \/ \E c \in Conns : BadHeader(c)
    \/ TickDequeue
    \/ Digest
    \/ HandlerRespond

\* Sessions over time: no adapter, the error registry as imported.
InitSession ==
    /\ Serving({})
    /\ error_registry = DefaultErrorRegistry
    /\ pool = SessionQuestions
    /\ tx_limit = MaxSessionTx

SpecSession == InitSession /\ [][ServeSessions]_vars

\* A started server on which the profiling adapter is registered, enabled or
\* not, while its clients send questions.
ProfilingAdapters == {ProfilingAdapter(TRUE), ProfilingAdapter(FALSE)}

InitProfiling ==
    /\ ServingAndRegistering({}, MaxProfilingRegs)
    /\ error_registry = DefaultErrorRegistry
    /\ pool = {Q("echo")}
    /\ tx_limit = MaxSessionTx

ServeProfiling ==
    \/ \E c \in Conns : Connect(c)
    \/ \E c \in Conns, q \in {Q("echo")} : Recv(c, q)
    \/ \E a \in ProfilingAdapters : RegisterAdapter(a)
    \/ TickDequeue
    \/ Digest
    \/ HandlerRespond

SpecProfiling == InitProfiling /\ [][ServeProfiling]_vars

\* Registrations under keys of every kind
KeyInputs == {"foo", "op_bad", ""} \cup OddKeys

RegisterAnyKey == \E key \in KeyInputs, f \in {"foo", "bar"} : RegisterCommand(key, f)

SpecKeys == Init /\ [][RegisterAnyKey]_vars

\* A server built with either value of start_queue and threaded_digest, its
\* interface and handler registered; start() and start_queue() are called
\* and clients send questions.
InitQueue ==
    /\ LET st == RegisterFuncs(NoCommands, InterfaceFuncs)
       IN /\ commands = st.commands
          /\ aliases = st.aliases
          /\ last_reg = [keys |-> BundleKeys, fn |-> "*",
                         before |-> NoCommands.commands, raised |-> st.raised]
    /\ regs = 1
    /\ error_registry = DefaultErrorRegistry
    /\ adapters = <<>>
    /\ boot = "new"
    /\ InitRun
    /\ NoPackage
    /\ handler = "registered"
    /\ handler_adapters = <<>>
    /\ reg_log = <<>>
    /\ reg_limit = 0
    /\ NoProfiles
    /\ Untouched
    /\ NoProxy
    /\ \E start_queue, threaded \in BOOLEAN : Constructed(start_queue, threaded)
    /\ pool = {Q("echo")}
    /\ tx_limit = MaxQueueTx

ServeQueue ==
    \/ Start
    \/ StartQueue
    \/ \E c \in Conns : Connect(c)
    \/ \E c \in Conns : Recv(c, Q("echo"))
    \/ \E w \in Workers : TickCheck(w)
    \/ \E w \in Workers : TickClaim(w)
    \/ \E w \in Workers : TickPop(w)
    \/ \E w \in Workers : TickRespond(w)
    \/ \E w \in Workers : TickRelease(w)
    \/ \E i \in 1..MaxQueueTx : ThreadRespond(i)

SpecQueue == InitQueue /\ [][ServeQueue]_vars

\* A server with the thread of its queue running (start_queue=True), with
\* either value of threaded_digest and no adapter, whose commands are queued
\* commands called by threads of the program.
InitQueued ==
    /\ LET st == RegisterFuncs(NoCommands, InterfaceFuncs)
       IN /\ commands = st.commands
          /\ aliases = st.aliases
          /\ last_reg = [keys |-> BundleKeys, fn |-> "*",
                         before |-> NoCommands.commands, raised |-> st.raised]
    /\ regs = 1
    /\ error_registry = DefaultErrorRegistry
    /\ adapters = <<>>
    /\ boot = "new"
    /\ InitRun
    /\ NoPackage
    /\ NoHandler
    /\ reg_limit = 0
    /\ NoProfiles
    /\ NoProxy
    /\ Untouched
    /\ \E threaded \in BOOLEAN : Constructed(TRUE, threaded)
    /\ pool = {}
    /\ tx_limit = 0

ServeQueued ==
    \/ \E nests \in BOOLEAN : QueuedCall(nests)
    \/ \E k \in QCalls : QueuedInit(k)
    \/ \E k \in QCalls : QueuedReturn(k)
    \/ \E w \in Workers : TickCheck(w)
    \/ \E w \in Workers : TickClaim(w)
    \/ \E w \in Workers : TickPop(w)
    \/ \E w \in Workers : QueuedTickRespond(w)
    \/ \E w \in Workers : TickRelease(w)
    \/ \E i \in 1..MaxQueuedCalls : QueuedThreadRespond(i)

SpecQueued == InitQueued /\ [][ServeQueued]_vars

\* The same with every thread scheduled again and again: the thread of the
\* queue, the threads of a threaded digest and the calling threads all run.
SpecQueuedFair ==
    /\ SpecQueued
    /\ \A k \in QCalls : WF_vars(QueuedInit(k)) /\ WF_vars(QueuedReturn(k))
    /\ \A w \in Workers :
          /\ WF_vars(TickCheck(w)) /\ WF_vars(TickClaim(w)) /\ WF_vars(TickPop(w))
          /\ WF_vars(QueuedTickRespond(w)) /\ WF_vars(TickRelease(w))
    /\ \A i \in 1..MaxQueuedCalls : WF_vars(QueuedThreadRespond(i))

\* The same server with its logging handler on the root logger, digesting
\* transactions while other threads log.
InitLogging ==
    /\ LET st == RegisterFuncs(NoCommands, InterfaceFuncs)
       IN /\ commands = st.commands
          /\ aliases = st.aliases
          /\ last_reg = [keys |-> BundleKeys, fn |-> "*",
                         before |-> NoCommands.commands, raised |-> st.raised]
    /\ regs = 1
    /\ error_registry = DefaultErrorRegistry
    /\ adapters = <<>>
    /\ boot = "new"
    /\ InitRun
    /\ NoPackage
    /\ NoHandler
    /\ reg_limit = 0
    /\ NoProfiles
    /\ NoProxy
    /\ Untouched
    /\ \E threaded \in BOOLEAN : Constructed(TRUE, threaded)
    /\ pool = {}
    /\ tx_limit = 0

ServeLogging ==
    \/ \E t \in LogTx : DigestStart(t)
    \/ \E t \in LogTx : DigestLogs(t)
    \/ OtherLogs
    \/ \E t \in LogTx : DigestEnd(t)
    \/ \E t \in LogTx : Inject(t)
    \/ \E t \in LogTx : Stop(t)

SpecLogging == InitLogging /\ [][ServeLogging]_vars

\* A connection on which a client writes NumPackets packets back to back,
\* with bodies of up to MaxBody lines, while the handler of the server reads.
Sent(lens) ==
    Packet(1, lens[1]) \o Packet(2, lens[2])

InitFraming ==
    /\ commands = NoCommands.commands
    /\ aliases = NoCommands.aliases
    /\ last_reg = None
    /\ regs = 0
    /\ error_registry = DefaultErrorRegistry
    /\ adapters = <<>>
    /\ boot = "new"
    /\ pool = {}
    /\ tx_limit = 0
    /\ InitRun
    /\ NoPackage
    /\ NoHandler
    /\ NoProfiles
    /\ NoProxy
    /\ DefaultQueue
    /\ reg_limit = 0
    /\ NoQueued
    /\ NoLogging
    /\ NeverEnded
    /\ NoRequirements
    /\ \E lens \in [1..NumPackets -> 0..MaxBody] : to_send = Sent(lens)
    /\ stream = <<>>
    /\ reader = AtHeader
    /\ delivered = <<>>
    /\ recv_errors = 0

Receiving ==
    \/ ClientSends
    \/ HeaderByte
    \/ HeaderTimeout
    \/ \E k \in 1..MaxBody : ContentRead(k)
    \/ ContentTimeout

SpecFraming == InitFraming /\ [][Receiving]_vars

\* A started server clients connect to and leave, and end() calls
InitEnd ==
    /\ commands = NoCommands.commands
    /\ aliases = NoCommands.aliases
    /\ last_reg = None
    /\ regs = 0
    /\ error_registry = DefaultErrorRegistry
    /\ adapters = <<>>
    /\ boot = "started"
    /\ pool = {}
    /\ tx_limit = 0
    /\ InitRun
    /\ NoPackage
    /\ handler = "listening"
    /\ handler_adapters = <<>>
    /\ reg_log = <<>>
    /\ NoProfiles
    /\ NoProxy
    /\ DefaultQueue
    /\ reg_limit = 0
    /\ Untouched

Shutdown ==
    \/ \E c \in EndClients : AddClient(c)
    \/ \E c \in EndClients : SessionEnds(c)
    \/ End

SpecEnd == InitEnd /\ [][Shutdown]_vars

\* A proxy whose connect() has returned: list_commands was asked and
\* answered at once
ReadyProxy ==
    /\ clock = 1
    /\ psock = "connected"
    /\ ppc = "ready"
    /\ retries = 2
    /\ attempts = 1
    /\ calls = 1
    /\ caller = [pc |-> "idle", k |-> 1, start |-> 1,
                 timeout |-> ListCommandsTimeout, slept |-> 0]
    /\ threads = [k \in Calls |-> IF k = 1 THEN "done" ELSE "none"]
    /\ box = [k \in Calls |-> IF k = 1 THEN <<[q |-> 1, tb |-> FALSE]>> ELSE <<>>]
    /\ pending = <<>>
    /\ inflight = <<>>
    /\ arrival = [k \in Calls |-> IF k = 1 THEN 1 ELSE 0]
    /\ results = [k \in Calls |->
                     IF k = 1
                     THEN [kind |-> "returned", q |-> 1, start |-> 1,
                           timeout |-> ListCommandsTimeout, at |-> 1]
                     ELSE NoResult]
    /\ cached = 1

\* Questions without a timeout on such a proxy, whose server answers, closes
\* the connection or is cut off
InitQuestion ==
    /\ commands = NoCommands.commands
    /\ aliases = NoCommands.aliases
    /\ last_reg = None
    /\ regs = 0
    /\ error_registry = DefaultErrorRegistry
    /\ adapters = <<>>
    /\ boot = "new"
    /\ pool = {}
    /\ tx_limit = 0
    /\ InitRun
    /\ NoPackage
    /\ NoHandler
    /\ NoProfiles
    /\ Untouched
    /\ reg_limit = 0
    /\ DefaultQueue
    /\ ReadyProxy
    /\ platform \in Platforms

NextQuestion ==
    \/ Question
    \/ \E tb \in BOOLEAN : ServerReply(tb)
    \/ ServerCloses
    \/ ConnectionFails
    \/ ReceiveRound
    \/ Tick

SpecQuestion == InitQuestion /\ [][NextQuestion]_vars

\* The same with the calling thread running on
SpecQuestionFair == SpecQuestion /\ WF_vars(ReceiveRound)

\* A server to whose registries classes with any requirements among each
\* other belong (none requires itself), and one registration by key
InitRequire ==
    /\ commands = NoCommands.commands
    /\ aliases = NoCommands.aliases
    /\ last_reg = None
    /\ regs = 0
    /\ error_registry = DefaultErrorRegistry
    /\ adapters = <<>>
    /\ boot = "new"
    /\ pool = {}
    /\ tx_limit = 0
    /\ InitRun
    /\ NoPackage
    /\ NoHandler
    /\ NoProfiles
    /\ NoProxy
    /\ DefaultQueue
    /\ reg_limit = 0
    /\ NoQueued
    /\ NoLogging
    /\ NoTraffic
    /\ NeverEnded
    /\ required \in {r \in [RequireKeys -> SUBSET RequireKeys] :
                         \A n \in RequireKeys : n \notin r[n]}
    /\ NothingRegistered

Requiring ==
    \/ \E n \in RequireKeys : RegisterByKey(n)
    \/ RequireNext
    \/ RequireReturn

SpecRequire == InitRequire /\ [][Requiring]_vars

\* A proxy built with connect=False, then connect() and timed questions,
\* against a server that may refuse connections and may never answer.
InitProxy ==
    /\ commands = NoCommands.commands
    /\ aliases = NoCommands.aliases
    /\ last_reg = None
    /\ regs = 0
    /\ error_registry = DefaultErrorRegistry
    /\ adapters = <<>>
    /\ boot = "new"
    /\ pool = {}
    /\ tx_limit = 0
    /\ InitRun
    /\ NoPackage
    /\ NoHandler
    /\ NoProfiles
    /\ Untouched
    /\ reg_limit = 0
    /\ DefaultQueue
    /\ NewProxy
    /\ platform \in Platforms

NextProxy ==
    \/ ProxyConnect
    \/ \E ok \in BOOLEAN : SocketConnect(ok)
    \/ ConnectCheck
    \/ \E timeout \in Timeouts : TimedQuestion(timeout)
    \/ \E tb \in BOOLEAN : ServerReply(tb)
    \/ \E k \in Calls : ThreadReceive(k)
    \/ Tick
    \/ Poll
    \/ Wake
    \/ Finish

SpecProxy == InitProxy /\ [][NextProxy]_vars

\* A started server whose clients are disconnected by address while their
\* sessions run.
ServeDisconnect ==
    \/ \E c \in Conns : Connect(c)
    \/ \E c \in Conns, q \in SessionQuestions : Recv(c, q)
    \/ \E c \in Conns : ReadNothing(c)
    \/ \E address \in DisconnectInputs : DisconnectClient(address)
    \/ TickDequeue
    \/ Digest
    \/ HandlerRespond

SpecDisconnect == InitSession /\ [][ServeDisconnect]_vars

\* ------------------------------------------------------------------ claims
Log == 1..Len(respond_log)

\* The transactions the worker took off the queue
Taken == {dispatched[i] : i \in 1..Len(dispatched)}

Queued == {queue[i] : i \in 1..Len(queue)}

\* The worker is through with tx: it took it and is not working on it now,
\* or it stopped for good while holding it.
Through(tx) ==
    /\ tx \in Taken
    /\ worker \in {"idle", "dead"} \/ cur.txid # tx.txid

\* The question names command key and nothing else
Asks(tx, key) == tx.q.command = key /\ tx.q.kw_command = Absent

\* handler.respond was called for tx with an error Response of this code,
\* written to the connection tx arrived on
AnsweredWithError(tx, code) ==
    \E i \in Log :
        /\ respond_log[i].txid = tx.txid
        /\ respond_log[i].conn = tx.conn
        /\ respond_log[i].written
        /\ respond_log[i].resp.response = None
        /\ respond_log[i].resp.tb # None
        /\ respond_log[i].resp.code = code

C2_EveryQueuedAnswered ==
    adapters = <<>> /\ worker = "dead"
        => \A tx \in Queued \cup Taken : \E i \in Log : respond_log[i].txid = tx.txid

\* C3: with no adapter registered, a question for a command whose callable,
\* argument processor or result processor raises is answered on its
\* connection with a Response of null response, a traceback and the mapped
\* code (600: the errors raised carry none).
C3_RaisingCommandAnswered ==
    \A tx \in Taken :
        adapters = <<>> /\ Through(tx)
            /\ (Asks(tx, "crash") \/ Asks(tx, "strict") \/ Asks(tx, "typed"))
            => AnsweredWithError(tx, UNHANDLED_EXCEPTION)

\* C4: with no adapter registered, a question for a name that is not bound
\* is answered with code 404, null response and a traceback, and no callable
\* is run for it.
C4_UnboundIsNotFound ==
    \A tx \in Taken :
        adapters = <<>> /\ Through(tx) /\ Asks(tx, "nope")
            => AnsweredWithError(tx, NOT_FOUND) /\ tx.txid \notin invoked

\* C5: with no adapter registered, a remote question for a private command
\* is answered with code 405, null response and a traceback, and the
\* callable is not run.
C5_PrivateIsDenied ==
    \A tx \in Taken :
        adapters = <<>> /\ Through(tx) /\ Asks(tx, "secret")
            => AnsweredWithError(tx, ACCESS_DENIED) /\ tx.txid \notin invoked

\* C6: with no adapter registered, a question whose command is the empty
\* string or absent is answered with code 504 and a traceback, and no
\* callable is run for it.
C6_EmptyCommandIsBadQuestion ==
    \A tx \in Taken :
        adapters = <<>> /\ Through(tx)
            /\ (QuestionLoad(tx.q).exc # None \/ Asks(tx, ""))
            => AnsweredWithError(tx, BAD_QUESTION) /\ tx.txid \notin invoked

\* C7 as stated: every Response handed to handler.respond has code 200
\* exactly when it carries no traceback.
C7_OkIffNoTraceback ==
    \A i \in Log : (respond_log[i].resp.code = OK) <=> (respond_log[i].resp.tb = None)

\* The command a question resolves to with the interface bundle registered
Resolved(q) == get_command(commands, QuestionLoad(q).command)

\* C7 amended: a Response handed to handler.respond with a traceback never
\* has code 200; one without a traceback has code 200 unless the command
\* returned its own status (returns_status_code), returned a Response of its
\* own, or the deprecation code 201 was set.
C7_TracebackImpliesNotOk ==
    \A i \in Log :
        /\ respond_log[i].resp.tb # None => respond_log[i].resp.code # OK
        /\ respond_log[i].resp.tb = None /\ respond_log[i].resp.code # OK
              => \/ respond_log[i].resp.code = DEPRECATED
                 \/ /\ QuestionLoad(respond_log[i].q).exc = None
                    /\ Resolved(respond_log[i].q) # None
                    /\ \/ FuncDef(Resolved(respond_log[i].q)).returns_status_code
                       \/ FuncDef(Resolved(respond_log[i].q)).body = "response"

\* An error Response (traceback, code 404) was handed to handler.respond.
C7_Witness ==
    \E i \in Log :
        /\ respond_log[i].resp.tb # None
        /\ respond_log[i].resp.code = NOT_FOUND
        /\ respond_log[i].written

\* C8: a hook that raises costs nothing: the transaction it raised for is not
\* lost before the queue, the worker goes on, and once the worker is through
\* with it the command's own Response has been written with its body.
C8_HookFailureSwallowed ==
    \A f \in faults :
        /\ f[1] \notin {d.txid : d \in dropped}
        /\ worker # "dead"
        /\ \A tx \in Taken :
              tx.txid = f[1] /\ Through(tx)
                  => \E i \in Log :
                        /\ respond_log[i].txid = tx.txid
                        /\ ~respond_log[i].fallback
                        /\ respond_log[i].written
                        /\ respond_log[i].body

\* C9: a question naming the former alias "prince" of "artist" is not lost,
\* and once the worker is through with it the command has run and the
\* Response carries artist's value, a deprecation warning and code 201.
C9_FormerAliasDeprecated ==
    /\ \A tx \in dropped : ~Asks(tx, "prince")
    /\ \A tx \in Taken :
          Through(tx) /\ Asks(tx, "prince")
              => /\ tx.txid \in invoked
                 /\ \E i \in Log :
                       /\ respond_log[i].txid = tx.txid
                       /\ respond_log[i].resp.response = FuncDef("artist").value
                       /\ respond_log[i].resp.warnings # <<>>
                       /\ respond_log[i].resp.code = DEPRECATED

Processed(fn) ==
    IF fn.result_processor = "json" THEN JsonText(fn.value) ELSE fn.value

\* The question resolves to a returns_status_code command whose callable
\* returns a pair (value, code) with an integer code
ReturnsPair(q) ==
    /\ QuestionLoad(q).exc = None
    /\ Resolved(q) # None
    /\ FuncDef(Resolved(q)).returns_status_code
    /\ FuncDef(Resolved(q)).body = "tuple"
    /\ FuncDef(Resolved(q)).status # NotAnInt

\* C11: for a returns_status_code command that returns (value, code) with an
\* integer code, every Response of the command handed to handler.respond
\* has response = the value after the result processors and code = code; and
\* with no adapter registered that Response is written once the worker is
\* through with the question.
C11_StatusCodePairSplit ==
    /\ \A i \in Log :
          ~respond_log[i].fallback /\ ReturnsPair(respond_log[i].q)
              => /\ respond_log[i].resp.response =
                        Processed(FuncDef(Resolved(respond_log[i].q)))
                 /\ respond_log[i].resp.code =
                        FuncDef(Resolved(respond_log[i].q)).status
                 /\ respond_log[i].resp.tb = None
    /\ \A tx \in Taken :
          adapters = <<>> /\ Through(tx) /\ ReturnsPair(tx.q)
              => \E i \in Log : /\ respond_log[i].txid = tx.txid
                                /\ ~respond_log[i].fallback
                                /\ respond_log[i].written

\* The Response of op_json, whose pair is (['a'], 418) and whose result
\* processor is return_as_json, was written: the JSON text and code 418.
C11_Witness ==
    \E i \in Log :
        /\ Asks(respond_log[i], "op_json")
        /\ respond_log[i].written
        /\ respond_log[i].resp.response = "[\"a\"]"
        /\ respond_log[i].resp.code = 418

\* C12: with no adapter registered, a question for a returns_status_code
\* command whose result is not a pair, or whose pair's second element is not
\* an integer, is answered with code 505, null response and a traceback, and
\* no Response without a traceback is handed to handler.respond for it.
C12_BadStatusPairIsBadResponse ==
    \A tx \in Taken :
        adapters = <<>> /\ Through(tx)
            /\ (Asks(tx, "op_bad") \/ Asks(tx, "op_str"))
            => /\ AnsweredWithError(tx, BAD_RESPONSE)
               /\ \A i \in Log : respond_log[i].txid = tx.txid
                                    => respond_log[i].resp.tb # None

\* The server accepted connection c
Accepted(c) == sock[c] # "none"

\* handler.respond wrote a Response for tx
Written(tx) ==
    \E i \in Log : respond_log[i].txid = tx.txid /\ respond_log[i].written

\* Every question read from connection c has had its Response written
AllAnswered(c) ==
    \A tx \in Queued \cup Taken : tx.conn = c => Through(tx) /\ Written(tx)

\* C13: an accepted connection whose most recent packet asked for keep-alive,
\* or on which a packet was received within the idle window, has its session
\* loop running and its socket open; and no session is closed by a read
\* that returned nothing inside the idle window.
C13_OpenWhileKeepAliveOrActive ==
    \A c \in Conns :
        /\ Accepted(c)
              /\ (keep_alive[c] \/ (received[c] > 0 /\ idle[c] <= LifetimeTicks))
              => session[c] = "open" /\ sock[c] = "open"
        /\ sock[c] = "closed" => idle[c] > LifetimeTicks

\* C14: once every question read from a connection is answered, the session
\* loop is still reading if the most recent question asked for keep-alive,
\* and otherwise the session has ended, the socket is closed and the client
\* is out of the client table; and a socket is never closed while a question
\* read from it has no Response written.
C14_ContinueOrCloseAfterAnswer ==
    \A c \in Conns :
        /\ received[c] > 0 /\ AllAnswered(c)
              => IF keep_alive[c] THEN session[c] = "open" /\ sock[c] = "open"
                 ELSE session[c] = "ended" /\ sock[c] = "closed" /\ c \notin clients
        /\ sock[c] = "closed" => AllAnswered(c)

\* C15: a session loop that has handled a read returning nothing after more
\* than the idle window without a packet has closed the connection and its
\* client is out of the client table, keep-alive or not.
C15_IdleClientClosedAndRemoved ==
    \A c \in Conns :
        Accepted(c) /\ idle[c] > LifetimeTicks
            => session[c] # "open" /\ sock[c] = "closed" /\ c \notin clients

\* The argument is a list or tuple of two elements
TwoElements(address) ==
    address.shape \in {"list", "tuple"} /\ Len(address.items) = 2

\* The clients of a table at the address (str(host), int(port))
ClientsAt(cls, address) ==
    {c \in cls : PeerAddress(c) = <<StrOf(address.items[1]),
                                    IntOf(address.items[2]).v>>}

\* C16: the last _disconnect_client(address) call: an argument that is not a
\* list or tuple of two elements raised ValueError and changed nothing;
\* with no client at (str(host), int(port)) it returned False and changed
\* nothing; otherwise it returned True, and the client is out of the client
\* table and the connection map and its connection is closed.
C16_DisconnectByAddress ==
    discs > 0 =>
        /\ ~TwoElements(last_disc.address)
              => last_disc.result = "ValueError" /\ last_disc.after = last_disc.before
        /\ TwoElements(last_disc.address) /\ IntOf(last_disc.address.items[2]).exc = None
              => IF ClientsAt(last_disc.before.clients, last_disc.address) = {}
                 THEN last_disc.result = "False" /\ last_disc.after = last_disc.before
                 ELSE /\ last_disc.result = "True"
                      /\ \A c \in ClientsAt(last_disc.before.clients, last_disc.address) :
                            /\ c \notin last_disc.after.clients
                            /\ c \notin last_disc.after.connections
                            /\ last_disc.after.sock[c] = "closed"

\* C17: a session that read a header it could not decode is closed: its
\* loop has stopped and its client is out of the client table; the queue
\* worker goes on and the sessions that read no such header are open.
C17_BadHeaderClosesSession ==
    \A c \in Conns :
        framing_errors[c] > 0
            => /\ session[c] # "open"
               /\ c \notin clients
               /\ worker # "dead"

\* ------------------------------------------------------------------- C18
\* The handler hooks that run before the marshaller return
ReachesMarshaller ==
    /\ CallHook(adapters, "handler_pre_respond") = None
    /\ CallHook(adapters, "handler_pre_compile_buffer") = None

\* The marshaller gives no bytes for the package of the i-th respond call
MarshalFails(i) ==
    /\ ReachesMarshaller
    /\ encode_package(adapters, respond_log[i].resp).bytes = <<>>

\* C18: whenever the marshaller fails to encode the package of a respond
\* call, the packet written to the connection is the synthetic Response with
\* code 502 (MARSHAL_ERROR): its body is that Response encoded and its header
\* declares that body's length.
C18_MarshalErrorSubstituteWritten ==
    \A i \in Log :
        MarshalFails(i) =>
            /\ respond_log[i].written
            /\ respond_log[i].bytes = _encode_package(BadContent).bytes
            /\ respond_log[i].content_length = Len(respond_log[i].bytes)

\* ------------------------------------------------------------------- C19
\* C19: in every packet written to a connection the Content-Length of the
\* header equals the length of the body that follows, whatever the adapters
\* did to the package in the pre-respond, pre-compile or marshaller hooks.
C19_ContentLengthIsBodyLength ==
    \A i \in Log :
        respond_log[i].written =>
            respond_log[i].content_length = Len(respond_log[i].bytes)

\* A packet was written whose body carries what an adapter put into the
\* package on its way out.
C19_Witness ==
    \E i \in Log :
        /\ respond_log[i].written
        /\ adapters # <<>> /\ adapters[1].edits # None
        /\ \E k \in 5..Len(respond_log[i].bytes) : respond_log[i].bytes[k] = "seen"
        /\ respond_log[i].content_length = Len(respond_log[i].bytes)

\* ------------------------------------------------------------------- C20
\* C20: what the simple marshaller decodes from the text it encoded is the
\* payload itself, for entries of type str, int, float, bool, None, list,
\* tuple and dict: decode(encode(payload)) == payload.
C20_SimpleRoundTrip ==
    stage = "decoded" => decoded.exc = None /\ decoded.data = AsDict(payload)

\* ------------------------------------------------------------------- C21
\* A list without the repetitions that follow an element directly
RECURSIVE Collapse(_)
Collapse(s) ==
    IF Len(s) < 2 THEN s
    ELSE IF s[1] = s[2] THEN Collapse(Tail(s))
    ELSE <<s[1]>> \o Collapse(Tail(s))

\* s can be read off t from left to right
RECURSIVE IsSubSeq(_, _)
IsSubSeq(s, t) ==
    IF s = <<>> THEN TRUE
    ELSE IF t = <<>> THEN FALSE
    ELSE IF Head(s) = Head(t) THEN IsSubSeq(Tail(s), Tail(t))
    ELSE IsSubSeq(s, Tail(t))

\* C21: at the hook points of the server (the loops over
\* self.adapters.values()) and at those of the handler and marshaller (the
\* loops over their adapters lists) the adapters are invoked in the order of
\* the register_adapter calls that registered them: each list can be read
\* off the sequence of those calls from left to right.
C21_HooksInRegistrationOrder ==
    /\ IsSubSeq(adapters, reg_log)
    /\ IsSubSeq(Collapse(handler_adapters), reg_log)

\* C22: the scratch state the profiling adapter keeps per transaction id
\* (command_profiles, buffer_compile_profiles) holds no entry for a
\* transaction that has completed, and holds nothing once every connection
\* is closed and the worker is idle with an empty queue.
Completed(txid) ==
    \E i \in 1..Len(dispatched) :
        /\ dispatched[i].txid = txid
        /\ worker = "idle" \/ i < Len(dispatched)

AllClosed ==
    /\ \A c \in Conns : session[c] \in {"ended", "crashed"}
    /\ queue = <<>>
    /\ worker = "idle"

C22_ScratchStateCleared ==
    /\ \A txid \in command_profiles \cup buffer_compile_profiles : ~Completed(txid)
    /\ AllClosed => command_profiles \cup buffer_compile_profiles = {}

\* C23: a timed question that ends with a response ends with the response
\* to its own question; it ends with the timeout error only once its deadline
\* has passed, and never when the response to its question was read from the
\* socket before the deadline.
AnsweredInTime(k) ==
    arrival[k] # 0 /\ arrival[k] - results[k].start < results[k].timeout

C23_TimedQuestionAnswerOrTimeout ==
    \A k \in Calls :
        /\ results[k].kind \in {"returned", "raised"} => results[k].q = k
        /\ results[k].kind = "timeout"
               => /\ results[k].at - results[k].start >= results[k].timeout
                  /\ ~AnsweredInTime(k)

\* C24: connect() calls socket.connect at most connection_retries times; when
\* no call succeeded it ends with socket.error and no question has been
\* sent; list_commands is asked only on a socket whose connect succeeded, and
\* what is cached is the response to it.
C24_ConnectBounded ==
    /\ attempts <= connection_retries
    /\ ppc = "refused" => calls = 0
    /\ calls >= 1 => psock = "connected"
    /\ ppc \notin {"new", "connecting"} /\ psock # "connected" => ppc = "refused"
    /\ cached # 0 => cached = 1

\* C25: register_command accepts a key exactly when it is a non-empty string
\* of lowercase ASCII letters and underscores; for any other key it raises
\* KeyError and the key is not bound afterwards.
WellFormed(key) ==
    /\ key # NoneKey
    /\ Spell(key) # <<>>
    /\ \A i \in 1..Len(Spell(key)) : Spell(key)[i] \in LEGAL_TOKENS

C25_KeyAcceptedIffWellFormed ==
    regs > 0 /\ last_reg.fn # "*" =>
        \A key \in last_reg.keys :
            /\ WellFormed(key) <=> last_reg.raised # "KeyError"
            /\ ~WellFormed(key) => commands[key] = None

\* C26: with threaded_digest every item taken off the queue is handed to a
\* thread of its own, in the order it left the queue, and the thread of the
\* queue never runs __respond itself, so it does not wait for the digest.
C26_ThreadedDigestOnFreshThread ==
    threaded_digest =>
        /\ \A w \in Workers : tickers[w].pc # "responding"
        /\ Len(queue_threads) = Len(dispatched)
        /\ \A i \in 1..Len(queue_threads) : queue_threads[i].item = dispatched[i]

\* The response to a later question of a connection was written before the
\* response to an earlier question of that connection.
C26_Witness ==
    /\ threaded_digest
    /\ \E i, j \in 1..Len(respond_log) :
          /\ i < j
          /\ respond_log[i].written /\ respond_log[j].written
          /\ respond_log[i].conn = respond_log[j].conn
          /\ respond_log[i].seq > respond_log[j].seq

\* C27: without threaded_digest at most one __respond is in progress at any
\* time.
C27_OneDigestAtATime ==
    ~threaded_digest =>
        Cardinality({w \in Workers : tickers[w].pc = "responding"}) <= 1

\* C28: items leave the queue in the order add_to_queue appended them (the
\* order of their transaction ids), every item taken off is handed to
\* __respond once, and no item is left in the queue with nothing able to
\* take it: the busy flag set with no thread that will clear it, or every
\* queue thread ended.
QueueStuck ==
    /\ queue # <<>>
    /\ \/ busy /\ \A w \in Workers : tickers[w].pc \in {"none", "top", "dead"}
       \/ \A w \in Workers : tickers[w].pc \in {"none", "dead"}

C28_QueueOrderExactlyOnce ==
    /\ \A i, j \in 1..Len(dispatched \o queue) :
           i < j => (dispatched \o queue)[i].txid < (dispatched \o queue)[j].txid
    /\ \A i \in 1..Len(dispatched) :
           Cardinality({k \in 1..Len(respond_log) :
                           /\ respond_log[k].txid = dispatched[i].txid
                           /\ ~respond_log[k].fallback}) <= 1
    /\ ~QueueStuck

\* C29: at most one response packet is written for a transaction, so the
\* fallback respond of __respond never writes after a packet of the same
\* transaction was written, and every packet goes to the connection the
\* question of its transaction came from.
PacketsOf(txid) ==
    {k \in 1..Len(respond_log) :
        respond_log[k].txid = txid /\ respond_log[k].written}

C29_AtMostOnePacket ==
    /\ \A i \in 1..Len(dispatched) :
           Cardinality(PacketsOf(dispatched[i].txid)) <= 1
    /\ \A k \in 1..Len(respond_log) :
           \E i \in 1..Len(dispatched) :
               /\ dispatched[i].txid = respond_log[k].txid
               /\ dispatched[i].conn = respond_log[k].conn

\* C30: the thread of the queue never ends, and whenever it is between two
\* dispatches the busy flag is clear, so a queued item can still be taken.
C30_WorkerSurvivesDispatch ==
    /\ worker # "dead"
    /\ worker = "idle" => ~busy

\* C31: every response a receiver thread of the proxy reads is the response
\* to the question of its own call, so no call ends with the response to
\* another question and the thread of a call that timed out never takes the
\* response meant for a later call.
C31_ReplyBelongsToCall ==
    \A k \in Calls :
        /\ \A i \in 1..Len(box[k]) : box[k][i].q = k
        /\ results[k].kind \in {"returned", "raised"} => results[k].q = k

\* C32: every call of QueuedServerCommand.queue returns, whatever the order
\* in which its thread and the thread of the queue run and also when it is
\* made from within a digest, and once it has returned responses holds no
\* entry for its transaction.
C32_QueuedCallReturns ==
    \A k \in QCalls :
        (qcalls[k].pc = "enqueued")
            ~> (qcalls[k].pc = "returned" /\ responses[k] = "absent")

\* C33: the records put into the Response of a transaction are the WARNING
\* and ERROR records its own digest logged, all of them and no record of
\* another thread or of another digest.
C33_OwnRecordsOnly ==
    \A t \in LogTx :
        lpc[t] \in {"injected", "done"}
            => attached[t] = [i \in 1..emitted[t] |-> t]

\* The hook points of one transaction in the order the claim gives them
HookPoints ==
    ReceiveHooks \o <<"server_pre_add_to_queue", "server_post_remove_from_queue",
                      "server_pre_digest", "server_post_digest",
                      "handler_pre_respond", "handler_post_respond">>

\* _respond reaches its server_post_digest loop unless an exception left it
\* before: the loop ran if one of its hooks raised or handler.respond was
\* called by _respond itself
PostDigestCalled(txid) ==
    \/ <<txid, "server_post_digest">> \in faults
    \/ \E i \in Log : respond_log[i].txid = txid /\ ~respond_log[i].fallback

\* The hooks of the handler.respond calls made for txid from the i-th log
\* entry on: handler_pre_respond at the start of each, handler_post_respond
\* after the write
RECURSIVE RespondCalls(_, _)
RespondCalls(txid, i) ==
    IF i > Len(respond_log) THEN <<>>
    ELSE (IF respond_log[i].txid # txid THEN <<>>
          ELSE IF respond_log[i].written
          THEN <<"handler_pre_respond", "handler_post_respond">>
          ELSE <<"handler_pre_respond">>) \o RespondCalls(txid, i + 1)

\* The hook points called for a transaction that got as far as
\* handler.respond, in call order
HookCalls(txid) ==
    ReceiveHooks
        \o <<"server_pre_add_to_queue", "server_post_remove_from_queue",
             "server_pre_digest">>
        \o (IF PostDigestCalled(txid) THEN <<"server_post_digest">> ELSE <<>>)
        \o RespondCalls(txid, 1)

\* C34: on a server with an adapter, for every transaction whose response
\* was written every hook point was called, once and in the order receive
\* hooks, server_pre_add_to_queue, server_post_remove_from_queue,
\* server_pre_digest, server_post_digest, handler_pre_respond,
\* handler_post_respond.
C34_HookPointsInOrder ==
    \A i \in Log :
        adapters # <<>> /\ respond_log[i].written
            => HookCalls(respond_log[i].txid) = HookPoints

\* C35: what the _recv calls on a connection return is, in order, the
\* packets written to it: the i-th has the header bytes of the i-th packet up
\* to and including its delimiter and its Content-Length body bytes, no
\* _recv call is left by an exception, and once everything written is read
\* every packet has been returned.
C35_PacketsIntact ==
    /\ recv_errors = 0
    /\ \A i \in 1..Len(delivered) :
          /\ i <= NumPackets
          /\ Len(delivered[i].header) = 4
          /\ delivered[i].header = Header(i, delivered[i].header[1].n)
          /\ delivered[i].body = Body(i, delivered[i].header[1].n)
    /\ to_send = <<>> /\ stream = <<>> /\ reader = AtHeader
          => Len(delivered) = NumPackets

\* C36: when the session loop of a client ends on its own, the remove_client
\* call ServerClient.start makes does not raise, whether or not the client
\* was removed before, and afterwards neither the client table nor the
\* connection map holds the client.
C36_RemovedOnceNoRaise ==
    [][\A c \in Conns :
          session[c] = "open" /\ session'[c] = "ended"
              => /\ remove_client(ClientTable, c).raised = None
                 /\ c \notin clients' /\ c \notin connections']_vars

\* C37: an end() call that returns leaves the server stopped, its listening
\* sockets closed and its client list empty, however many clients were
\* connected; an end() call on a stopped server raises and changes nothing.
C37_EndStopsAndEmpties ==
    /\ last_end.result = "returned"
          => /\ last_end.after.stopped
             /\ ~last_end.after.listening
             /\ last_end.after.clients = <<>>
    /\ last_end.before.stopped
          => last_end.result = "Exception" /\ last_end.after = last_end.before

\* How often a is in list
Count(list, a) == Cardinality({i \in 1..Len(list) : list[i] = a})

\* C38: when no adapter was handed to register_adapter more than once, the
\* adapter list of the handler holds each adapter at most once, whether the
\* adapter was registered before or after register_handler and start().
C38_AdapterOncePerHandler ==
    (\A a \in OrderAdapters : Count(reg_log, a) <= 1)
        => \A a \in OrderAdapters : Count(handler_adapters, a) <= 1

\* C39: a question() without a timeout whose connection the server has
\* closed, or whose connection has failed, comes to an end: it returns the
\* response that can still be read, or it raises.
C39_QuestionEndsOnClosedConnection ==
    (caller.pc = "receiving" /\ psock \in {"eof", "reset"}) ~> (caller.pc = "idle")

\* The keys a registration of n needs: n and what it requires, directly or not
RECURSIVE Needs(_, _)
Needs(keys, steps) ==
    IF steps = 0 THEN keys
    ELSE Needs(keys \cup UNION {required[n] : n \in keys}, steps - 1)

\* C40: a registration by key comes to an end whatever the classes require
\* of each other, cycles included: the calls do not nest without end, and
\* when the call has returned, every key it needs has had an object stored
\* under it exactly once and no other key has.
C40_RequirementsRegisteredOnce ==
    /\ req_outcome # "RecursionError"
    /\ req_outcome = "returned"
          => \A n \in RequireKeys :
                times[n] = IF n \in Needs({req_top}, Cardinality(RequireKeys))
                           THEN 1 ELSE 0
====
